---- MODULE Spec2Model ----
(***************************************************************************)
(* Verification model of the finance-office dashboard tools:                *)
(*   - ScriptRunner (src/src/modules/script_runner.py): subprocess          *)
(*     supervisor with a polling monitor thread and output reader threads;  *)
(*   - the mail merge, bulk email, cardholder table, statement and          *)
(*     delegation form tools, each as a call on the inputs of the model.    *)
(* Text is modelled as sequences of one-character strings.                  *)
(***************************************************************************)
EXTENDS Integers, Sequences, FiniteSets, TLC

VARIABLES
    \* ---- ScriptRunner
    now,                 \* wall clock, whole seconds (time.time / datetime.now)
    utc_offset,          \* local time minus UTC, seconds (datetime.now - datetime.utcnow)
    execs,               \* every ScriptExecution object ever created, in creation order
    running_executions,  \* the registry dict, in insertion order: <<execution_id, object>> pairs
    output_queues,       \* dict execution_id -> queued lines
    db,                  \* rows of table script_executions
    monitor_active,      \* the monitor loop's flag
    ret,                 \* what the last run_script / stop_script call returned or raised
    \* ---- perform_replacements (Bulk Mail.py)
    template,            \* the template argument
    row_map,             \* the row_map argument, a dict in insertion order: <<key, value>> pairs
    replaced,            \* the text returned
    repl_pc,             \* "idle", "call" (arguments chosen) or "done" (returned)
    \* ---- EmailHandler.process_variables
    pv_text,             \* the text argument
    variables,           \* the variables argument, a dict in insertion order: <<key, value>> pairs
    processed,           \* the text returned
    pv_pc,               \* "idle", "call" (arguments chosen) or "done" (returned)
    \* ---- EmailHandler bulk jobs
    job_queue,           \* the EmailJob objects, in creation order
    bulk_ret,            \* what the last execute_bulk_job call returned or raised
    \* ---- ExcelHandler._clean_cardholder_data
    df,                  \* the DataFrame argument: columns, index and data (rows of cells)
    cleaned,             \* the DataFrame returned, or the exception raised
    clean_pc,            \* "idle", "call" (argument chosen) or "done" (returned or raised)
    \* ---- ExcelHandler.batch_generate_statements
    cardholders,         \* the rows of table cardholders, by id
    files,               \* the statement files of exports_dir: dict path -> statement held
    batch_ret,           \* what the last batch_generate_statements call returned, with the outcomes and the ids it generated for
    \* ---- BulkMailerApp._load_data_from_excel (Bulk Mail.py)
    workbook,            \* the workbook opened: its worksheets, each a name and rows of cells
    recipients,          \* self.recipients
    load_pc,             \* "idle", "call" (workbook chosen) or "done" (loaded)
    \* ---- create_individual_statements (Create Statements)
    data_rows,           \* the rows of the Data sheet below its header row
    cardfiles,           \* the (card number, filename) entries
    blank,               \* the Statement sheet of the blank statement file
    saved,               \* one entry per statement_wb.save that succeeded, in order: entry, path, sheet
    statement_files,     \* the files of statements_folder: dict path -> Statement sheet
    stmt_pc,             \* "idle", "call" (arguments chosen) or "done" (returned)
    \* ---- extract_cost_centre_codes (process_delegation.py)
    page_text,           \* the page_text argument
    cost_codes,          \* the dict returned: ten_digit and eight_digit
    codes_pc,            \* "idle", "call" (argument chosen) or "done" (returned)
    \* ---- update_excel (process_delegation.py)
    full_list,           \* the worksheet FULL LIST: dict <<column, row>> -> value
    full_list_before,    \* the worksheet as it was before the call
    form,                \* the arguments: data, limits and codes
    rows_written,        \* the locals new_row, new_count, next_row and matched_row of the call
    deleg_pc             \* "idle", "call" (arguments chosen) or "done" (returned)

runnerVars == <<now, utc_offset, execs, running_executions, output_queues, db,
                monitor_active, ret>>

replVars == <<template, row_map, replaced, repl_pc>>

pvVars == <<pv_text, variables, processed, pv_pc>>

bulkVars == <<job_queue, bulk_ret>>

cleanVars == <<df, cleaned, clean_pc>>

batchVars == <<cardholders, files, batch_ret>>

loadVars == <<workbook, recipients, load_pc>>

stmtVars == <<data_rows, cardfiles, blank, saved, statement_files, stmt_pc>>

codesVars == <<page_text, cost_codes, codes_pc>>

delegVars == <<full_list, full_list_before, form, rows_written, deleg_pc>>

nonRunnerVars == <<replVars, pvVars, bulkVars, cleanVars, batchVars, loadVars,
                   stmtVars, codesVars, delegVars>>

nonReplVars == <<runnerVars, pvVars, bulkVars, cleanVars, batchVars, loadVars,
                 stmtVars, codesVars, delegVars>>

nonPvVars == <<runnerVars, replVars, bulkVars, cleanVars, batchVars, loadVars,
               stmtVars, codesVars, delegVars>>

nonBulkVars == <<runnerVars, replVars, pvVars, cleanVars, batchVars, loadVars,
                 stmtVars, codesVars, delegVars>>

nonCleanVars == <<runnerVars, replVars, pvVars, bulkVars, batchVars, loadVars,
                  stmtVars, codesVars, delegVars>>

nonBatchVars == <<runnerVars, replVars, pvVars, bulkVars, cleanVars, loadVars,
                  stmtVars, codesVars, delegVars>>

nonLoadVars == <<runnerVars, replVars, pvVars, bulkVars, cleanVars, batchVars,
                 stmtVars, codesVars, delegVars>>

nonStmtVars == <<runnerVars, replVars, pvVars, bulkVars, cleanVars, batchVars,
                 loadVars, codesVars, delegVars>>

nonCodesVars == <<runnerVars, replVars, pvVars, bulkVars, cleanVars, batchVars,
                  loadVars, stmtVars, delegVars>>

nonDelegVars == <<runnerVars, replVars, pvVars, bulkVars, cleanVars, batchVars,
                  loadVars, stmtVars, codesVars>>

vars == <<runnerVars, replVars, pvVars, bulkVars, cleanVars, batchVars, loadVars,
          stmtVars, codesVars, delegVars>>


(***************************************************************************)
(* Text helpers (Python str methods), on sequences of characters.          *)
(***************************************************************************)
Whitespace == {" ", "\n"}

RECURSIVE LStrip(_)
\* str.lstrip(): drop leading whitespace
LStrip(s) ==
    IF s = <<>> THEN <<>>
    ELSE IF Head(s) \in Whitespace THEN LStrip(Tail(s)) ELSE s

RECURSIVE RStrip(_)
\* str.rstrip(): drop trailing whitespace
RStrip(s) ==
    IF s = <<>> THEN <<>>
    ELSE IF s[Len(s)] \in Whitespace THEN RStrip(SubSeq(s, 1, Len(s) - 1)) ELSE s

\* str.strip()
Strip(s) == RStrip(LStrip(s))

RECURSIVE SplitAcc(_, _, _)
\* splitting at every character of seps; cur is the piece being read
SplitAcc(s, seps, cur) ==
    IF s = <<>> THEN <<cur>>
    ELSE IF Head(s) \in seps THEN <<cur>> \o SplitAcc(Tail(s), seps, <<>>)
    ELSE SplitAcc(Tail(s), seps, Append(cur, Head(s)))

\* str.split(sep) for a one-character separator
Split(s, sep) == SplitAcc(s, {sep}, <<>>)

RECURSIVE NonEmptyOnly(_)
\* [x for x in parts if x]
NonEmptyOnly(parts) ==
    IF parts = <<>> THEN <<>>
    ELSE IF Head(parts) = <<>> THEN NonEmptyOnly(Tail(parts))
    ELSE <<Head(parts)>> \o NonEmptyOnly(Tail(parts))

RECURSIVE ConcatLines(_)
\* the text a pipe holds: every line followed by its newline
ConcatLines(lines) ==
    IF lines = <<>> THEN <<>>
    ELSE Head(lines) \o <<"\n">> \o ConcatLines(Tail(lines))

\* str.split() without arguments: the words between runs of whitespace
SplitWords(s) == NonEmptyOnly(SplitAcc(s, Whitespace, <<>>))

RECURSIVE JoinWith(_, _)
\* sep.join(parts)
JoinWith(parts, sep) ==
    IF parts = <<>> THEN <<>>
    ELSE IF Len(parts) = 1 THEN parts[1]
    ELSE parts[1] \o sep \o JoinWith(Tail(parts), sep)

\* the letters of the model's alphabet that have a lower case
LowerChar(c) ==
    CASE c = "A" -> "a"
      [] c = "B" -> "b"
      [] c = "X" -> "x"
      [] OTHER -> c

\* str.lower()
Lower(s) == [k \in DOMAIN s |-> LowerChar(s[k])]

Digits == {"0", "1", "2", "3", "4", "5", "6", "7", "8", "9"}

RECURSIVE OnlyDigits(_)
\* re.sub(r'\D', '', s)
OnlyDigits(s) ==
    IF s = <<>> THEN <<>>
    ELSE IF Head(s) \in Digits THEN <<Head(s)>> \o OnlyDigits(Tail(s))
    ELSE OnlyDigits(Tail(s))

\* ---- cell and dict values: None, NaN, text, or a number with its str() text
PyNone == [kind |-> "None", text |-> <<>>]

PyNaN == [kind |-> "NaN", text |-> <<>>]

PyStr(s) == [kind |-> "str", text |-> s]

PyNum(digits) == [kind |-> "num", text |-> digits]

\* str(v)
ToStr(v) ==
    CASE v.kind = "None" -> <<"N", "o", "n", "e">>
      [] v.kind = "NaN" -> <<"n", "a", "n">>
      [] OTHER -> v.text

(***************************************************************************)
(* ScriptRunner                                                             *)
(***************************************************************************)
\* ---- bounds of the model
MaxRuns == 2        \* run_script calls that create an execution
MaxLines == 1       \* lines a script writes to stdout
TimeSlack == 2      \* single seconds the clock may advance
MaxHours == 1       \* one-hour jumps the clock may make
ScriptTimeout == 1  \* script_info.timeout of the registered script, seconds

\* ---- program constants
CleanupAge == 3600  \* timedelta(hours=1)
DbMatchWindow == 5  \* timedelta(seconds=5)
SigTermCode == -15  \* Popen.returncode after terminate()
NoneVal == -1       \* Python None, for times and exit codes not yet set

\* the clock readings of the model: whole hours plus a few seconds
TimeValues == {h * CleanupAge + sec : h \in 0..MaxHours, sec \in 0..TimeSlack}
TickSteps == {1, CleanupAge}
UtcOffsets == {0, 3600}

Scripts == {"job"}                      \* self.scripts: registered names
ScriptNames == Scripts \cup {"ghost"}   \* names a caller may pass
ExitCodes == {0, 1}                     \* codes a script exits with on its own
LineValues == {<<"a">>, <<" ", "b">>}   \* lines a script may print

PENDING == "pending"
RUNNING == "running"
SUCCESS == "success"
FAILED == "failed"
CANCELLED == "cancelled"
TIMEOUT == "timeout"
ScriptStatus == {PENDING, RUNNING, SUCCESS, FAILED, CANCELLED, TIMEOUT}
TerminalStatus == {SUCCESS, FAILED, CANCELLED, TIMEOUT}

\* ScriptExecution(script_info, execution_id) with the dataclass defaults; the
\* Popen object's state (proc, rc), its stdout pipe and the reader thread's
\* position are kept with the object that owns them.
ScriptExecution(name, id, cb) ==
    [script |-> name, execution_id |-> id, status |-> PENDING,
     start_time |-> NoneVal, end_time |-> NoneVal, exit_code |-> NoneVal,
     proc |-> "none", rc |-> NoneVal, callback |-> cb,
     written |-> <<>>, pipe |-> <<>>, output |-> <<>>, reader |-> "none"]

\* ---- the registry as an insertion-ordered dict
RegIds == {running_executions[k][1] : k \in DOMAIN running_executions}

RegPos(reg, id) == CHOOSE k \in DOMAIN reg : reg[k][1] = id

RegHas(reg, id) == \E k \in DOMAIN reg : reg[k][1] = id

\* self.running_executions[id]
RegGet(reg, id) == reg[RegPos(reg, id)][2]

\* self.running_executions[id] = obj
RegPut(reg, id, obj) ==
    IF RegHas(reg, id) THEN [reg EXCEPT ![RegPos(reg, id)] = <<id, obj>>]
    ELSE Append(reg, <<id, obj>>)

RECURSIVE RegDel(_, _)
\* del self.running_executions[id]
RegDel(reg, id) ==
    IF reg = <<>> THEN <<>>
    ELSE IF Head(reg)[1] = id THEN Tail(reg)
    ELSE <<Head(reg)>> \o RegDel(Tail(reg), id)

\* ---- dict helpers for output_queues (a function on its keys)
DictDel(d, k) == [x \in (DOMAIN d) \ {k} |-> d[x]]

DictPut(d, k, v) == [x \in (DOMAIN d) \cup {k} |-> IF x = k THEN v ELSE d[x]]

EmptyDict == [x \in {} |-> <<>>]

\* ---- database
UtcNow == now - utc_offset

\* DatabaseManager.log_script_start
log_script_start(rows, name) ==
    Append(rows, [script_name |-> name, start_time |-> UtcNow, end_time |-> NoneVal,
                  status |-> "running", exit_code |-> NoneVal])

\* DatabaseManager.log_script_end
log_script_end(rows, rowid, status, code) ==
    IF rowid \in DOMAIN rows
    THEN [rows EXCEPT ![rowid] = [@ EXCEPT !.end_time = UtcNow, !.status = status,
                                            !.exit_code = code]]
    ELSE rows

\* ScriptRunner._log_execution_complete: the first row of that script name that
\* started no earlier than 5 s before the execution
log_execution_complete(rows, e) ==
    LET match == {r \in DOMAIN rows :
                     /\ rows[r].script_name = e.script
                     /\ rows[r].start_time >= e.start_time - DbMatchWindow}
    IN IF match = {} THEN rows
       ELSE log_script_end(rows, CHOOSE r \in match : \A q \in match : r <= q,
                           e.status, e.exit_code)

\* the outcome of a call: what it returned ("id", "True", "False", "None") or
\* raised ("ValueError", "raise"), and the execution ID it concerns
NoId == <<"", NoneVal>>

Returned(op, val, id) == [op |-> op, val |-> val, id |-> id]

RunnerInit ==
    /\ now = 0
    /\ utc_offset \in UtcOffsets
    /\ execs = <<>>
    /\ running_executions = <<>>
    /\ output_queues = EmptyDict
    /\ db = <<>>
    /\ monitor_active = TRUE
    /\ ret = Returned("init", "None", NoId)

\* ---- run_script
ExecutionId(name) == <<name, now>>

run_script_unknown(name) ==
    /\ name \notin Scripts
    /\ ret' = Returned("run_script", "ValueError", NoId)
    /\ UNCHANGED <<nonRunnerVars, now, utc_offset, execs, running_executions, output_queues, db,
                   monitor_active>>

\* the execution object once Popen has succeeded / has raised
Started(e) == [e EXCEPT !.start_time = now, !.status = RUNNING, !.proc = "alive",
                        !.reader = IF e.callback THEN "reading" ELSE "none"]

\* a run_script whose except branch forgot the status
StartFailedStaysRunning(e) == [e EXCEPT !.start_time = now, !.status = RUNNING]

StartFailed(e) == [e EXCEPT !.start_time = now, !.status = FAILED, !.end_time = now]

run_script(name, cb, popen_ok) ==
    /\ name \in Scripts
    /\ Len(execs) < MaxRuns
    /\ LET id == ExecutionId(name)
           obj == Len(execs) + 1
           e == ScriptExecution(name, id, cb)
           db1 == log_script_start(db, name)
       IN /\ running_executions' = RegPut(running_executions, id, obj)
          /\ output_queues' = IF cb THEN DictPut(output_queues, id, <<>>) ELSE output_queues
          /\ IF popen_ok
             THEN /\ execs' = Append(execs, Started(e))
                  /\ db' = db1
                  /\ ret' = Returned("run_script", "id", id)
             ELSE /\ execs' = Append(execs, StartFailed(e))
                  /\ db' = log_script_end(db1, Len(db1), "failed", NoneVal)
                  /\ ret' = Returned("run_script", "raise", NoId)
    /\ UNCHANGED <<nonRunnerVars, now, utc_offset, monitor_active>>

\* ---- stop_script
\* a stop_script that terminates the process but records nothing
StoppedUnrecorded(e) == [e EXCEPT !.proc = "exited", !.rc = SigTermCode]

\* the execution object after terminate() and wait()
Stopped(e) == [e EXCEPT !.proc = "exited", !.rc = SigTermCode, !.status = CANCELLED,
                        !.end_time = now, !.exit_code = SigTermCode]

\* stop_script's effect on the objects, and its return value
StopEffect(es, reg, id) ==
    LET obj == RegGet(reg, id)
    IN IF es[obj].proc = "alive" THEN [es EXCEPT ![obj] = Stopped(@)] ELSE es

StopReturns(es, reg, id) == es[RegGet(reg, id)].proc = "alive"

stop_script_unknown(id) ==
    /\ ~RegHas(running_executions, id)
    /\ ret' = Returned("stop_script", "ValueError", id)
    /\ UNCHANGED <<nonRunnerVars, now, utc_offset, execs, running_executions, output_queues, db,
                   monitor_active>>

stop_script(id) ==
    /\ RegHas(running_executions, id)
    /\ execs' = StopEffect(execs, running_executions, id)
    /\ ret' = Returned("stop_script",
                     IF StopReturns(execs, running_executions, id) THEN "True" ELSE "False", id)
    /\ UNCHANGED <<nonRunnerVars, now, utc_offset, running_executions, output_queues, db, monitor_active>>

\* ---- the scripts themselves (the operating system's side)
\* a running script prints a line to its stdout pipe
proc_write(i, line) ==
    /\ i \in DOMAIN execs
    /\ execs[i].proc = "alive"
    /\ Len(execs[i].written) < MaxLines
    /\ execs' = [execs EXCEPT ![i] = [@ EXCEPT !.written = Append(@, line),
                                                !.pipe = Append(@, line)]]
    /\ UNCHANGED <<nonRunnerVars, now, utc_offset, running_executions, output_queues, db,
                   monitor_active, ret>>

\* a running script exits on its own
proc_exit(i, code) ==
    /\ i \in DOMAIN execs
    /\ execs[i].proc = "alive"
    /\ execs' = [execs EXCEPT ![i] = [@ EXCEPT !.proc = "exited", !.rc = code]]
    /\ UNCHANGED <<nonRunnerVars, now, utc_offset, running_executions, output_queues, db,
                   monitor_active, ret>>

\* ---- _start_output_monitoring.monitor_output, the reader thread of one execution
\* one turn of "while execution.process.poll() is None": readline, strip, append
reader_line(i) ==
    /\ i \in DOMAIN execs
    /\ execs[i].reader = "reading"
    /\ execs[i].proc = "alive"
    /\ execs[i].pipe # <<>>
    /\ LET line == Strip(Head(execs[i].pipe))
           id == execs[i].execution_id
       IN /\ execs' = [execs EXCEPT ![i] = [@ EXCEPT !.pipe = Tail(@),
                                                       !.output = Append(@, line)]]
          /\ output_queues' = IF id \in DOMAIN output_queues
                              THEN [output_queues EXCEPT ![id] = Append(@, line)]
                              ELSE output_queues
    /\ UNCHANGED <<nonRunnerVars, now, utc_offset, running_executions, db, monitor_active, ret>>

\* remaining_stdout.strip().split('\n'), keeping the non-empty lines
RemainingLines(pipe) == NonEmptyOnly(Split(Strip(ConcatLines(pipe)), "\n"))

\* after the loop: communicate() and the remaining output
reader_drain(i) ==
    /\ i \in DOMAIN execs
    /\ execs[i].reader = "reading"
    /\ execs[i].proc = "exited"
    /\ execs' = [execs EXCEPT ![i] =
                    [@ EXCEPT !.output = @ \o (IF execs[i].pipe = <<>> THEN <<>>
                                               ELSE RemainingLines(execs[i].pipe)),
                              !.pipe = <<>>, !.reader = "done"]]
    /\ UNCHANGED <<nonRunnerVars, now, utc_offset, running_executions, output_queues, db,
                   monitor_active, ret>>

\* ---- get_script_output / get_script_status (read-only)
get_script_output(id) ==
    IF RegHas(running_executions, id)
    THEN [val |-> execs[RegGet(running_executions, id)].output]
    ELSE [val |-> "ValueError"]

get_script_status(id) ==
    IF RegHas(running_executions, id)
    THEN execs[RegGet(running_executions, id)].status
    ELSE "ValueError"

\* ---- _start_monitoring.monitor, one turn of "while self.monitor_active"
\* the branch for a finished process (lines 438-453)
Completed(e) == [e EXCEPT !.end_time = now, !.exit_code = e.rc,
                          !.status = IF e.rc = 0 THEN SUCCESS ELSE FAILED]

\* whether the timeout branch fires for a running execution (lines 456-458)
TimedOut(e) == e.status = RUNNING /\ now - e.start_time > ScriptTimeout

\* the monitor's handling of one (execution_id, execution) item of the snapshot;
\* S carries the objects, the queues and the database rows
MonitorItem(S, reg, item) ==
    LET id == item[1]
        obj == item[2]
        e == S.execs[obj]
    IN IF e.proc = "exited"
       THEN LET e1 == Completed(e)
            IN [execs |-> [S.execs EXCEPT ![obj] = e1],
                queues |-> IF id \in DOMAIN S.queues THEN DictDel(S.queues, id) ELSE S.queues,
                rows |-> log_execution_complete(S.rows, e1)]
       ELSE IF TimedOut(e)
       THEN [S EXCEPT !.execs = [StopEffect(S.execs, reg, id) EXCEPT ![obj].status = TIMEOUT]]
       ELSE S

RECURSIVE MonitorItems(_, _, _)
\* for execution_id, execution in list(self.running_executions.items())
MonitorItems(S, reg, items) ==
    IF items = <<>> THEN S
    ELSE MonitorItems(MonitorItem(S, reg, Head(items)), reg, Tail(items))

\* an execution the clean-up removes (lines 463-470)
Expired(e) ==
    /\ e.status \in TerminalStatus
    /\ e.end_time # NoneVal
    /\ e.end_time < now - CleanupAge

RECURSIVE RegKeep(_, _)
\* the registry without the expired executions
RegKeep(reg, es) ==
    IF reg = <<>> THEN <<>>
    ELSE IF Expired(es[Head(reg)[2]]) THEN RegKeep(Tail(reg), es)
    ELSE <<Head(reg)>> \o RegKeep(Tail(reg), es)

monitor_cycle ==
    /\ monitor_active
    /\ LET S == MonitorItems([execs |-> execs, queues |-> output_queues, rows |-> db],
                             running_executions, running_executions)
       IN /\ execs' = S.execs
          /\ output_queues' = S.queues
          /\ db' = S.rows
          /\ running_executions' = RegKeep(running_executions, S.execs)
    /\ UNCHANGED <<nonRunnerVars, now, utc_offset, monitor_active, ret>>

\* ---- cleanup
RECURSIVE StopAll(_, _, _)
\* for execution_id, execution in list(self.running_executions.items()): stop_script
StopAll(es, reg, items) ==
    IF items = <<>> THEN es
    ELSE StopAll(StopEffect(es, reg, Head(items)[1]), reg, Tail(items))

cleanup ==
    /\ monitor_active' = FALSE
    /\ execs' = StopAll(execs, running_executions, running_executions)
    /\ ret' = Returned("cleanup", "None", NoId)
    /\ UNCHANGED <<nonRunnerVars, now, utc_offset, running_executions, output_queues, db>>

\* ---- time passes
tick(d) ==
    /\ now + d \in TimeValues
    /\ now' = now + d
    /\ UNCHANGED <<nonRunnerVars, utc_offset, execs, running_executions, output_queues, db,
                   monitor_active, ret>>

UnknownId == <<"ghost", 0>>

\* the supervisor's calls, the scripts' exits, the monitor and the clock
RunnerNext ==
    \/ \E name \in ScriptNames : run_script_unknown(name)
    \/ \E name \in ScriptNames, cb \in BOOLEAN, ok \in BOOLEAN : run_script(name, cb, ok)
    \/ \E id \in RegIds \cup {UnknownId} : stop_script_unknown(id)
    \/ \E id \in RegIds : stop_script(id)
    \/ \E i \in DOMAIN execs, code \in ExitCodes : proc_exit(i, code)
    \/ monitor_cycle
    \/ cleanup
    \/ \E d \in TickSteps : tick(d)

\* the scripts' output and the reader threads, with the monitor
OutputNext ==
    \/ \E name \in ScriptNames, cb \in BOOLEAN : run_script(name, cb, TRUE)
    \/ \E i \in DOMAIN execs, line \in LineValues : proc_write(i, line)
    \/ \E i \in DOMAIN execs, code \in ExitCodes : proc_exit(i, code)
    \/ \E i \in DOMAIN execs : reader_line(i)
    \/ \E i \in DOMAIN execs : reader_drain(i)
    \/ monitor_cycle

(***************************************************************************)
(* perform_replacements (Bulk Mail.py): <placeholder> substitution          *)
(***************************************************************************)
\* ---- bounds of the model
MaxPieces == 3      \* pieces a template is put together from

\* the keys the function names, as texts
K_full_name == <<"f", "u", "l", "l", "_", "n", "a", "m", "e">>
K_first_name == <<"f", "i", "r", "s", "t", "_", "n", "a", "m", "e">>
K_last_name == <<"l", "a", "s", "t", "_", "n", "a", "m", "e">>
K_name == <<"n", "a", "m", "e">>
K_card_number == <<"c", "a", "r", "d", "_", "n", "u", "m", "b", "e", "r">>
K_cardno == <<"c", "a", "r", "d", "n", "o">>
K_card == <<"c", "a", "r", "d">>
K_card_last4 == <<"c", "a", "r", "d", "_", "l", "a", "s", "t", "4">>
K_today == <<"t", "o", "d", "a", "y">>
K_full_date == <<"f", "u", "l", "l", "_", "d", "a", "t", "e">>
K_time == <<"t", "i", "m", "e">>
K_timestamp == <<"t", "i", "m", "e", "s", "t", "a", "m", "p">>
K_year == <<"y", "e", "a", "r">>
K_month == <<"m", "o", "n", "t", "h">>
K_weekday == <<"w", "e", "e", "k", "d", "a", "y">>

GenericKeys == {K_today, K_full_date, K_time, K_timestamp, K_year, K_month, K_weekday}

\* now.strftime(...) / now.isoformat() for one generic field: a text of the clock
\* reading, which holds no angle bracket
GenericValue(k) == <<"@">> \o k

DictGet(d, k, default) == IF k \in DOMAIN d THEN d[k] ELSE default

\* dict.setdefault(k, v)
SetDefault(d, k, v) == IF k \in DOMAIN d THEN d ELSE DictPut(d, k, v)

RECURSIVE BuildLookup(_, _)
\* {k.lower(): ("" if v is None else str(v)) for k, v in row_map.items()}
BuildLookup(items, d) ==
    IF items = <<>> THEN d
    ELSE BuildLookup(Tail(items),
                     DictPut(d, Lower(Head(items)[1]),
                             IF Head(items)[2].kind = "None" THEN <<>>
                             ELSE ToStr(Head(items)[2])))

\* full_name (lines 87-88)
WithFullName(d) ==
    LET last == DictGet(d, K_last_name, <<>>)
        full == IF DictGet(d, K_full_name, <<>>) # <<>> THEN d[K_full_name]
                ELSE DictGet(d, K_first_name, <<>>)
                     \o (IF last # <<>> THEN <<" ">> \o last ELSE <<>>)
    IN SetDefault(d, K_full_name, full)

\* first_name, last_name split from name (lines 89-94)
WithSplitName(d) ==
    IF K_first_name \notin DOMAIN d /\ K_name \in DOMAIN d
    THEN LET parts == SplitWords(d[K_name])
         IN IF parts = <<>> THEN d
            ELSE SetDefault(SetDefault(d, K_first_name, parts[1]), K_last_name,
                            IF Len(parts) > 1 THEN JoinWith(Tail(parts), <<" ">>) ELSE <<>>)
    ELSE d

\* card_last4 (lines 97-100)
WithCardLast4(d) ==
    LET cardnum == IF DictGet(d, K_card_number, <<>>) # <<>> THEN d[K_card_number]
                   ELSE IF DictGet(d, K_cardno, <<>>) # <<>> THEN d[K_cardno]
                   ELSE DictGet(d, K_card, <<>>)
        digits == OnlyDigits(cardnum)
    IN IF cardnum = <<>> THEN d
       ELSE SetDefault(d, K_card_last4,
                       IF Len(digits) >= 4 THEN SubSeq(digits, Len(digits) - 3, Len(digits))
                       ELSE digits)

RECURSIVE WithDefaults(_, _)
\* lookup.setdefault(k, ...) for the generic date/time keys (lines 105-112)
WithDefaults(d, ks) ==
    IF ks = {} THEN d
    ELSE LET k == CHOOSE x \in ks : TRUE
         IN WithDefaults(SetDefault(d, k, GenericValue(k)), ks \ {k})

\* the lookup dict at line 114
Lookup(rm) ==
    WithDefaults(WithCardLast4(WithSplitName(WithFullName(BuildLookup(rm, EmptyDict)))),
                 GenericKeys)

\* repl(match): the key of a token's inner text
TokenKey(inner) == Lower(Strip(inner))

\* the first angle bracket of t at or after position p, or 0
NextBracket(t, p) ==
    LET at == {q \in p..Len(t) : t[q] \in {"<", ">"}}
    IN IF at = {} THEN 0 ELSE CHOOSE q \in at : \A r \in at : q <= r

RECURSIVE ReSub(_, _, _)
\* re.sub(r'<([^<>]+)>', repl, template), scanning from position p
ReSub(t, p, d) ==
    IF p > Len(t) THEN <<>>
    ELSE LET q == NextBracket(t, p + 1)
         IN IF t[p] = "<" /\ q > p + 1 /\ t[q] = ">"
            THEN DictGet(d, TokenKey(SubSeq(t, p + 1, q - 1)), <<>>) \o ReSub(t, q + 1, d)
            ELSE <<t[p]>> \o ReSub(t, p + 1, d)

\* for mutation: the result is scanned for tokens once more
perform_replacements_rescan(t, rm) ==
    IF t = <<>> THEN <<>> ELSE ReSub(ReSub(t, 1, Lookup(rm)), 1, Lookup(rm))

perform_replacements(t, rm) ==
    IF t = <<>> THEN <<>> ELSE ReSub(t, 1, Lookup(rm))

\* ---- the inputs of the model
TemplatePieces ==
    {<<"<">>, <<">">>, <<"a">>, <<" ">>, <<"<", " ", "A", " ", ">">>, <<"<", "b", ">">>,
     <<"<">> \o K_card_last4 \o <<">">>, <<"<">> \o K_today \o <<">">>,
     <<"<">> \o K_first_name \o <<">">>}

RECURSIVE Flatten(_)
Flatten(pieces) == IF pieces = <<>> THEN <<>> ELSE Head(pieces) \o Flatten(Tail(pieces))

TemplatesOf(max) ==
    {Flatten(ps) : ps \in UNION {[1..n -> TemplatePieces] : n \in 0..max}}

RowMaps ==
    {<<>>,
     << <<<<"A">>, PyStr(<<"x">>)>>, <<<<"b">>, PyStr(<<"<", "a", ">">>)>> >>,
     << <<<<"a">>, PyNone>>, <<K_name, PyStr(<<"j", "o", " ", "d", "o">>)>>,
        <<K_card, PyStr(<<"1", "2", "-", "3", "4", "5">>)>> >>,
     << <<K_today, PyStr(<<"t">>)>>, <<K_card_last4, PyStr(<<"z">>)>>,
        <<K_card_number, PyNum(<<"1", "2", "3">>)>> >>,
     << <<<<"a">>, PyStr(<<"x">>)>>, <<<<"A">>, PyStr(<<"y">>)>>,
        <<K_first_name, PyStr(<<"a", "l">>)>>, <<K_last_name, PyStr(<<"b", "o">>)>> >>}

ReplInit ==
    /\ template \in TemplatesOf(MaxPieces)
    /\ row_map \in RowMaps
    /\ replaced = <<>>
    /\ repl_pc = "call"

\* the call perform_replacements(template, row_map)
replace_call ==
    /\ repl_pc = "call"
    /\ replaced' = perform_replacements(template, row_map)
    /\ repl_pc' = "done"
    /\ UNCHANGED <<nonReplVars, template, row_map>>

ReplNext == replace_call


(***************************************************************************)
(* EmailHandler.process_variables: {placeholder} substitution               *)
(***************************************************************************)
\* ---- bounds of the model
MaxTextPieces == 3      \* pieces a text is put together from

K_organisation == <<"o", "r", "g", "a", "n", "i", "s", "a", "t", "i", "o", "n">>

FinanceDepartment == <<"F", "i", "n", "a", "n", "c", "e", " ", "D", "e", "p", "a", "r", "t", "m", "e", "n", "t">>

\* the keys of common_vars, in the dict's order
CommonKeys == <<K_today, K_full_date, K_time, K_organisation>>

\* common_vars: the formatted clock readings and the organisation's name
CommonValue(k) == IF k = K_organisation THEN FinanceDepartment ELSE GenericValue(k)

StartsWithAt(s, p, pat) ==
    /\ p + Len(pat) - 1 <= Len(s)
    /\ SubSeq(s, p, p + Len(pat) - 1) = pat

RECURSIVE ReplaceFrom(_, _, _, _)
\* str.replace(pat, val) for a non-empty pat, from position p on
ReplaceFrom(s, p, pat, val) ==
    IF p > Len(s) THEN <<>>
    ELSE IF StartsWithAt(s, p, pat) THEN val \o ReplaceFrom(s, p + Len(pat), pat, val)
    ELSE <<s[p]>> \o ReplaceFrom(s, p + 1, pat, val)

StrReplace(s, pat, val) == ReplaceFrom(s, 1, pat, val)

\* f"{{{var_name}}}"
Pattern(var_name) == <<"{">> \o var_name \o <<"}">>

RECURSIVE ReplaceVariables(_, _)
\* the loop over variables.items() (lines 208-210)
ReplaceVariables(s, items) ==
    IF items = <<>> THEN s
    ELSE ReplaceVariables(StrReplace(s, Pattern(Head(items)[1]), ToStr(Head(items)[2])),
                          Tail(items))

RECURSIVE ReplaceCommon(_, _)
\* the loop over common_vars.items() (lines 220-222)
ReplaceCommon(s, ks) ==
    IF ks = <<>> THEN s
    ELSE ReplaceCommon(StrReplace(s, Pattern(Head(ks)), CommonValue(Head(ks))), Tail(ks))

process_variables(text, vs) == ReplaceCommon(ReplaceVariables(text, vs), CommonKeys)

\* ---- the inputs of the model
TextPieces ==
    {<<"{">>, <<"}">>, <<"a">>, <<" ">>, <<"{", "a", "}">>, <<"{", "b", "}">>,
     Pattern(K_today), Pattern(K_organisation)}

TextsOf(max) == {Flatten(ps) : ps \in UNION {[1..n -> TextPieces] : n \in 0..max}}

VariableDicts ==
    {<<>>,
     << <<<<"a">>, PyStr(<<"x">>)>> >>,
     << <<<<"a">>, PyNum(<<"1", "2">>)>>, <<<<"b">>, PyStr(<<>>)>> >>,
     << <<<<"a">>, PyStr(<<"{", "b", "}">>)>>, <<<<"b">>, PyStr(<<"y">>)>> >>,
     << <<<<"b">>, PyStr(<<"y">>)>>, <<<<"a">>, PyStr(<<"{", "b", "}">>)>> >>,
     << <<<<"a">>, PyStr(Pattern(K_today))>> >>,
     << <<K_today, PyStr(<<"t">>)>>, <<<<"b">>, PyStr(<<"a">>)>> >>,
     << <<<<"b">>, PyStr(<<"a">>)>>, <<<<"a">>, PyStr(<<"x">>)>> >>}

PvInit ==
    /\ pv_text \in TextsOf(MaxTextPieces)
    /\ variables \in VariableDicts
    /\ processed = <<>>
    /\ pv_pc = "call"

\* the call process_variables(text, variables)
process_call ==
    /\ pv_pc = "call"
    /\ processed' = process_variables(pv_text, variables)
    /\ pv_pc' = "done"
    /\ UNCHANGED <<nonPvVars, pv_text, variables>>

PvNext == process_call

(***************************************************************************)
(* EmailHandler.execute_bulk_job: bulk email jobs                           *)
(***************************************************************************)
\* ---- bounds of the model
MaxJobs == 2            \* jobs created
MaxRecipients == 2      \* recipients of a job
MaxResults == 4         \* entries of a job's results list

Addresses == {"a@x", "b@x"}

RecipientLists == UNION {[1..n -> Addresses] : n \in 0..MaxRecipients}

\* what one pass of the loop body does: the send returns True, returns False, or
\* an exception is raised in the body
SendOutcomes == {"sent", "refused", "raised"}

\* EmailJob(template, recipients, ...): the id is a fresh uuid4
EmailJob(id, recipient_list) ==
    [id |-> id, recipients |-> recipient_list, status |-> "pending", results |-> <<>>]

NoReport == [kind |-> "none"]

BulkInit ==
    /\ job_queue = <<>>
    /\ bulk_ret = NoReport

create_bulk_job(recipient_list) ==
    /\ Len(job_queue) < MaxJobs
    /\ job_queue' = Append(job_queue, EmailJob(Len(job_queue) + 1, recipient_list))
    /\ UNCHANGED <<nonBulkVars, bulk_ret>>

\* the entry the loop body appends to job.results for one recipient
ResultEntry(email, outcome) ==
    [recipient |-> email, success |-> (outcome = "sent"), error |-> (outcome = "raised")]

RECURSIVE SendAll(_, _, _)
\* the loop over job.recipients (lines 382-425): the results list after it
SendAll(results, recipient_list, outcomes) ==
    IF recipient_list = <<>> THEN results
    ELSE SendAll(Append(results, ResultEntry(Head(recipient_list), Head(outcomes))),
                 Tail(recipient_list), Tail(outcomes))

CountOf(outcomes, which) == Cardinality({i \in DOMAIN outcomes : outcomes[i] \in which})

\* execute_bulk_job(job_id) for a job of the queue
execute_bulk_job(j, outcomes) ==
    /\ j \in DOMAIN job_queue
    /\ DOMAIN outcomes = DOMAIN job_queue[j].recipients
    /\ Len(job_queue[j].results) + Len(job_queue[j].recipients) <= MaxResults
    /\ LET job           == job_queue[j]
           results       == SendAll(job.results, job.recipients, outcomes)
           success_count == CountOf(outcomes, {"sent"})
           failed_count  == CountOf(outcomes, {"refused", "raised"})
       IN /\ job_queue' = [job_queue EXCEPT
                              ![j].results = results,
                              ![j].status = IF failed_count = 0 THEN "completed"
                                            ELSE "partial"]
          /\ bulk_ret' = [kind |-> "report", job_id |-> job.id,
                          total_recipients |-> Len(job.recipients),
                          success_count |-> success_count,
                          failed_count |-> failed_count,
                          results |-> results]
    /\ UNCHANGED nonBulkVars

\* execute_bulk_job(job_id) for an id no job of the queue has
execute_bulk_job_unknown(id) ==
    /\ \A j \in DOMAIN job_queue : job_queue[j].id # id
    /\ bulk_ret' = [kind |-> "ValueError", job_id |-> id]
    /\ UNCHANGED <<nonBulkVars, job_queue>>

\* get_job_status(job_id)
get_job_status(j) ==
    [job_id |-> job_queue[j].id, status |-> job_queue[j].status,
     recipient_count |-> Len(job_queue[j].recipients),
     results_count |-> Len(job_queue[j].results)]

BulkNext ==
    \/ \E recipient_list \in RecipientLists : create_bulk_job(recipient_list)
    \/ \E j \in DOMAIN job_queue :
           \E outcomes \in [DOMAIN job_queue[j].recipients -> SendOutcomes] :
               execute_bulk_job(j, outcomes)
    \/ \E id \in 1..MaxJobs : execute_bulk_job_unknown(id)

(***************************************************************************)
(* ExcelHandler._clean_cardholder_data: cleaning the cardholder table       *)
(***************************************************************************)
\* ---- bounds of the model
MaxRows == 2            \* rows of an input table

\* ---- the positions the code names (1-based here, 0-based in iloc)
MinPositional == 8      \* len(df.columns) >= 8
FirstNameCol == 5       \* df.iloc[:, 4]
LastNameCol == 6        \* df.iloc[:, 5]
EmailCol == 8           \* df.iloc[:, 7]

\* a DataFrame: column labels, row index and, per row, one cell per column
EmptyFrame == [columns |-> <<>>, index |-> <<>>, data |-> <<>>]

HasColumn(f, label) == \E c \in DOMAIN f.columns : f.columns[c] = label

LabelCount(f, label) == Cardinality({c \in DOMAIN f.columns : f.columns[c] = label})

ColumnOf(f, label) == CHOOSE c \in DOMAIN f.columns : f.columns[c] = label

\* f[label] = series: the column is overwritten if f has it and appended if not
WithColumn(f, label, series) ==
    IF HasColumn(f, label)
    THEN [f EXCEPT !.data = [r \in DOMAIN f.data |->
                                [f.data[r] EXCEPT ![ColumnOf(f, label)] = series[r]]]]
    ELSE [f EXCEPT !.columns = Append(f.columns, label),
                   !.data = [r \in DOMAIN f.data |-> Append(f.data[r], series[r])]]

\* f[label] = value: the same value in every row
WithConstant(f, label, value) == WithColumn(f, label, [r \in DOMAIN f.data |-> value])

\* .fillna('').astype(str) of one cell
FillStr(v) == IF v.kind \in {"None", "NaN"} THEN <<>> ELSE ToStr(v)

HasAt(s) == \E k \in DOMAIN s : s[k] = "@"

\* the FullName of a row by position (lines 224-226)
PositionalFullName(first, last) ==
    Strip(Strip(StrReplace(FillStr(first), <<"-">>, <<" ">>)) \o <<" ">> \o Strip(FillStr(last)))

\* the FullName of a row by the columns First Name and Last Name (lines 263-265)
NamedFullName(first, last) ==
    Strip(Strip(FillStr(first)) \o <<" ">> \o Strip(FillStr(last)))

\* lines 217-228
WithPositionalName(cf, f) ==
    IF Len(f.columns) > 5 /\ f.data # <<>>
    THEN WithColumn(cf, "FullName",
                    [r \in DOMAIN f.data |->
                        PyStr(PositionalFullName(f.data[r][FirstNameCol], f.data[r][LastNameCol]))])
    ELSE cf

Max(S) == IF S = {} THEN 0 ELSE CHOOSE x \in S : \A y \in S : y <= x

\* lines 231-259
WithPositionalEmails(cf, f) ==
    IF Len(f.columns) > 7
    THEN LET email_col_clean == [r \in DOMAIN f.data |-> FillStr(f.data[r][EmailCol])]
             parts == [r \in DOMAIN f.data |-> Split(email_col_clean[r], ";")]
             width == Max({Len(parts[r]) : r \in DOMAIN f.data})
             part(r, n) == IF width >= n /\ Len(parts[r]) >= n
                           THEN PyStr(Strip(parts[r][n])) ELSE PyStr(<<>>)
         IN WithColumn(
                WithColumn(
                    WithColumn(cf, "email_data",
                               [r \in DOMAIN f.data |-> PyStr(email_col_clean[r])]),
                    "cardholder_email", [r \in DOMAIN f.data |-> part(r, 1)]),
                "manager_email", [r \in DOMAIN f.data |-> part(r, 2)])
    ELSE cf

\* lines 214-259
WithPositional(f) ==
    IF Len(f.columns) >= MinPositional
    THEN WithPositionalEmails(WithPositionalName(f, f), f)
    ELSE f

\* lines 262-265
WithNamedName(cf, f) ==
    IF HasColumn(f, "First Name") /\ HasColumn(f, "Last Name")
    THEN WithColumn(cf, "FullName",
                    [r \in DOMAIN f.data |->
                        PyStr(NamedFullName(f.data[r][ColumnOf(f, "First Name")],
                                            f.data[r][ColumnOf(f, "Last Name")]))])
    ELSE cf

column_mapping ==
    ("Section" :> "department") @@ ("Department" :> "department")
    @@ ("Monthly Limit" :> "monthly_limit") @@ ("Cost Centre" :> "cost_centre")
    @@ ("CostCentre" :> "cost_centre") @@ ("Email" :> "email")
    @@ ("Manager Email" :> "manager_email") @@ ("Card Number" :> "card_number")
    @@ ("CardNumber" :> "card_number") @@ ("FullName" :> "name")
    @@ ("cardholder_email" :> "email") @@ ("Full Name" :> "name")
    @@ ("Cardholder Name" :> "name")

\* cleaned_df.rename(columns=column_mapping)
Renamed(f) ==
    [f EXCEPT !.columns = [c \in DOMAIN f.columns |->
                              IF f.columns[c] \in DOMAIN column_mapping
                              THEN column_mapping[f.columns[c]] ELSE f.columns[c]]]

PyBool(b) == [kind |-> "bool", text |-> IF b THEN <<"T", "r", "u", "e">>
                                        ELSE <<"F", "a", "l", "s", "e">>]

\* required_columns, in the dict's order
required_columns ==
    << <<"name", PyStr(<<>>)>>, <<"email", PyStr(<<>>)>>, <<"card_number", PyStr(<<>>)>>,
       <<"department", PyStr(<<>>)>>, <<"cost_centre", PyStr(<<>>)>>,
       <<"manager_email", PyStr(<<>>)>>, <<"monthly_limit", PyNum(<<"0">>)>>,
       <<"active", PyBool(TRUE)>> >>

RECURSIVE WithRequired(_, _)
\* lines 299-301
WithRequired(f, req) ==
    IF req = <<>> THEN f
    ELSE WithRequired(IF HasColumn(f, Head(req)[1]) THEN f
                      ELSE WithConstant(f, Head(req)[1], Head(req)[2]),
                      Tail(req))

\* .replace(['nan', 'None', ''], '')
BlankWords == {<<"n", "a", "n">>, <<"N", "o", "n", "e">>, <<>>}

Unblank(s) == IF s \in BlankWords THEN <<>> ELSE s

\* one cell of an email column after lines 306-310
CleanEmail(v) ==
    LET s == Unblank(Strip(FillStr(v)))
    IN IF HasAt(s) /\ s # <<>> THEN s ELSE <<>>

\* one cell of the name column after lines 322-323
CleanName(v) == Unblank(Strip(FillStr(v)))

\* f[label] is a Series only if one column has the label; of a DataFrame (several
\* columns with the label) the .str accessor raises AttributeError
StrAccessorRaises(f, label) == LabelCount(f, label) > 1

\* lines 304-323, for a frame on which they do not raise
WithCleanColumns(f) ==
    LET e == WithColumn(f, "email",
                 [r \in DOMAIN f.data |-> PyStr(CleanEmail(f.data[r][ColumnOf(f, "email")]))])
        m == WithColumn(e, "manager_email",
                 [r \in DOMAIN e.data |->
                     PyStr(CleanEmail(e.data[r][ColumnOf(e, "manager_email")]))])
    IN WithColumn(m, "name",
                 [r \in DOMAIN m.data |-> PyStr(CleanName(m.data[r][ColumnOf(m, "name")]))])

\* the row filter of lines 328-331
Complete(f, r) ==
    LET name  == f.data[r][ColumnOf(f, "name")]
        email == f.data[r][ColumnOf(f, "email")]
    IN \/ name.kind \notin {"None", "NaN"} /\ name.text # <<>>
       \/ email.kind \notin {"None", "NaN"} /\ email.text # <<>> /\ HasAt(email.text)

RECURSIVE RowsFrom(_, _)
\* the positions of the rows kept, in order, from row r on
RowsFrom(f, r) ==
    IF r > Len(f.data) THEN <<>>
    ELSE (IF Complete(f, r) THEN <<r>> ELSE <<>>) \o RowsFrom(f, r + 1)

Filtered(f) ==
    LET kept == RowsFrom(f, 1)
    IN [f EXCEPT !.index = [k \in DOMAIN kept |-> f.index[kept[k]]],
                 !.data = [k \in DOMAIN kept |-> f.data[kept[k]]]]

\* datetime.now() as a cell
NowCell == PyStr(GenericValue(K_timestamp))

\* lines 337-340
WithTimestamps(f) == WithConstant(WithConstant(f, "created_at", NowCell), "updated_at", NowCell)

clean_cardholder_data(f) ==
    LET renamed_df == WithRequired(Renamed(WithNamedName(WithPositional(f), f)),
                                   required_columns)
    IN IF \E label \in {"email", "manager_email", "name"} : StrAccessorRaises(renamed_df, label)
       THEN [kind |-> "AttributeError"]
       ELSE [kind |-> "frame", frame |-> WithTimestamps(Filtered(WithCleanColumns(renamed_df)))]

\* ---- the inputs of the model
BaseLabels ==
    <<"Card-Number", "Last-5-Digits", "Title", "First-Name", "Last-Name", "Location",
      "CARD-STATUS", "E-mail-Address">>

LabelLists ==
    {BaseLabels,
     [BaseLabels EXCEPT ![FirstNameCol] = "First Name", ![LastNameCol] = "Last Name"],
     Append(BaseLabels, "Notes"),
     Append(BaseLabels, "Email"),
     Append(BaseLabels, "Full Name"),
     Append(BaseLabels, "Manager Email")}

NameCells ==
    {<<PyStr(<<"j", "o">>), PyStr(<<"d", "o">>)>>,
     <<PyStr(<<>>), PyNone>>,
     <<PyNaN, PyStr(<<"d", "o">>)>>,
     <<PyStr(<<"a", "-", "b">>), PyStr(<<" ">>)>>}

EmailCells ==
    {PyStr(<<"a", "@", "x">>),
     PyStr(<<"a", "@", "x", ";", "m", "@", "x">>),
     PyStr(<<" ", "a", "@", "x", " ", ";", "m">>),
     PyStr(<<";", "m", "@", "x">>),
     PyStr(<<"a", "x">>),
     PyStr(<<>>),
     PyStr(<<" ">>),
     PyNone,
     PyNaN,
     PyNum(<<"1", "2", "3", "4", "5">>)}

\* a row of an input table with the given name and email cells
InputRow(labels, names, email) ==
    [c \in DOMAIN labels |->
        IF c = FirstNameCol THEN names[1]
        ELSE IF c = LastNameCol THEN names[2]
        ELSE IF c = EmailCol THEN email
        ELSE PyStr(<<"c">>)]

InputFrame(labels, names, emails) ==
    [columns |-> labels,
     index |-> [r \in DOMAIN names |-> r],
     data |-> [r \in DOMAIN names |-> InputRow(labels, names[r], emails[r])]]

InputFramesOf(max) ==
    UNION {{InputFrame(labels, names, emails) :
                labels \in LabelLists,
                names \in [1..n -> NameCells],
                emails \in [1..n -> EmailCells]} : n \in 0..max}

CleanInit ==
    /\ df \in InputFramesOf(MaxRows)
    /\ cleaned = [kind |-> "none"]
    /\ clean_pc = "call"

\* the call _clean_cardholder_data(df)
clean_call ==
    /\ clean_pc = "call"
    /\ cleaned' = clean_cardholder_data(df)
    /\ clean_pc' = "done"
    /\ UNCHANGED <<nonCleanVars, df>>

CleanNext == clean_call

(***************************************************************************)
(* ExcelHandler.batch_generate_statements: one statement file per cardholder*)
(***************************************************************************)
\* ---- bounds of the model
MaxCardholders == 3     \* rows of table cardholders

CardholderNames == {<<"a", " ", "b">>, <<"a", "_", "b">>, <<"c">>}

\* a row of table cardholders: the id is the primary key, the card number is
\* unique, the name is not
Cardholder(id, name, active) ==
    [id |-> id, card_number |-> id, name |-> name, active |-> active]

CardholderTablesOf(max) ==
    UNION {{[i \in 1..n |-> Cardholder(i, names[i], actives[i])] :
                names \in [1..n -> CardholderNames], actives \in [1..n -> BOOLEAN]} :
           n \in 0..max}

NoBatch == [kind |-> "none"]

BatchInit ==
    /\ cardholders \in CardholderTablesOf(MaxCardholders)
    /\ files = EmptyDict
    /\ batch_ret = NoBatch

\* f"Statement_{cardholder.name.replace(' ', '_')}_{period_start.strftime('%Y%m')}.xlsx"
\* for the one period of the model
StatementPath(c) ==
    <<"Statement_">> \o StrReplace(c.name, <<" ">>, <<"_">>) \o <<"_period.xlsx">>

\* the workbook generate_statement builds for a cardholder (lines 469-472)
StatementOf(c) == [name |-> c.name, card_number |-> c.card_number]

RECURSIVE SelectActive(_)
\* get_cardholders(active_only=True)
SelectActive(rows) ==
    IF rows = <<>> THEN <<>>
    ELSE (IF Head(rows).active THEN <<Head(rows)>> ELSE <<>>) \o SelectActive(Tail(rows))

RECURSIVE GenerateAll(_, _, _)
\* the loop of batch_generate_statements over the cardholders cs; ok[c.id] tells
\* whether generate_statement returns for c (it saves the file and returns its
\* path) or raises before saving; S holds the files, the paths and the ids done
GenerateAll(S, cs, ok) ==
    IF cs = <<>> THEN S
    ELSE LET c == Head(cs)
         IN GenerateAll(
                IF ok[c.id]
                THEN [files |-> DictPut(S.files, StatementPath(c), StatementOf(c)),
                      paths |-> Append(S.paths, StatementPath(c)),
                      generated |-> Append(S.generated, c.id)]
                ELSE S,
                Tail(cs), ok)

\* the call batch_generate_statements(period_start, period_end)
batch_generate_statements(ok) ==
    /\ LET S == GenerateAll([files |-> files, paths |-> <<>>, generated |-> <<>>],
                            SelectActive(cardholders), ok)
       IN /\ files' = S.files
          /\ batch_ret' = [kind |-> "paths", paths |-> S.paths,
                           generated |-> S.generated, outcomes |-> ok]
    /\ UNCHANGED <<nonBatchVars, cardholders>>

BatchNext == \E ok \in [DOMAIN cardholders -> BOOLEAN] : batch_generate_statements(ok)

(***************************************************************************)
(* BulkMailerApp._load_data_from_excel (Bulk Mail.py): the recipient list   *)
(***************************************************************************)
\* ---- bounds of the model
MaxSheetRows == 3       \* rows of a worksheet that hold anything

\* ---- what the code names
SHEET_NAME == "OUTSTANDING LOGS"
HeaderScanRows == 10    \* min(10, last_row)
FlagColumn == 1         \* ws.Cells(row, 1)
AddressColumn == 8      \* ws.Cells(row, 8)
SheetColumns == 8       \* the columns of the model's worksheets

\* the letters of the model's alphabet that have an upper case
UpperChar(c) ==
    CASE c = "a" -> "A"
      [] c = "b" -> "B"
      [] c = "x" -> "X"
      [] OTHER -> c

\* str.upper()
Upper(s) == [k \in DOMAIN s |-> UpperChar(s[k])]

\* ws.Cells(r, c).Value: None for a cell that holds nothing
CellValue(ws, r, c) ==
    IF r \in DOMAIN ws.rows /\ c \in DOMAIN ws.rows[r] THEN ws.rows[r][c] ELSE PyNone

\* the cells of a worksheet that hold something
UsedCells(ws) ==
    {rc \in (DOMAIN ws.rows) \X (1..SheetColumns) : CellValue(ws, rc[1], rc[2]) # PyNone}

Min(S) == CHOOSE x \in S : \A y \in S : x <= y

\* ws.UsedRange: the smallest rectangle that holds every used cell (A1 for a
\* worksheet that holds nothing)
UsedRange(ws) ==
    LET rs == {rc[1] : rc \in UsedCells(ws)}
        cs == {rc[2] : rc \in UsedCells(ws)}
    IN IF rs = {} THEN [first_row |-> 1, last_row |-> 1, first_col |-> 1, last_col |-> 1]
       ELSE [first_row |-> Min(rs), last_row |-> Max(rs),
             first_col |-> Min(cs), last_col |-> Max(cs)]

\* used_range.Rows.Count
RowsCount(ws) == UsedRange(ws).last_row - UsedRange(ws).first_row + 1

\* used_range.Columns.Count
ColumnsCount(ws) == UsedRange(ws).last_col - UsedRange(ws).first_col + 1

\* val not in (None, "")
NonEmptyCell(v) == v # PyNone /\ v # PyStr(<<>>)

\* the worksheet the code reads (lines 351-358)
ChosenSheet(wb) ==
    IF \E k \in DOMAIN wb : wb[k].name = SHEET_NAME
    THEN wb[CHOOSE k \in DOMAIN wb : wb[k].name = SHEET_NAME]
    ELSE IF \E k \in DOMAIN wb : wb[k].name = "Sheet1"
    THEN wb[CHOOSE k \in DOMAIN wb : wb[k].name = "Sheet1"]
    ELSE wb[1]

NonEmptyCount(ws, r, last_col) ==
    Cardinality({c \in 1..last_col : NonEmptyCell(CellValue(ws, r, c))})

RECURSIVE DetectHeader(_, _, _, _, _, _)
\* the header detection loop (lines 365-378) from row r on
DetectHeader(ws, r, stop, last_col, header_row, max_nonempty) ==
    IF r > stop THEN header_row
    ELSE IF NonEmptyCount(ws, r, last_col) > max_nonempty
    THEN DetectHeader(ws, r + 1, stop, last_col, r, NonEmptyCount(ws, r, last_col))
    ELSE DetectHeader(ws, r + 1, stop, last_col, header_row, max_nonempty)

HeaderRow(ws) ==
    LET last_row == RowsCount(ws)
        stop == IF HeaderScanRows < last_row THEN HeaderScanRows ELSE last_row
    IN DetectHeader(ws, 1, stop, ColumnsCount(ws), 1, 0)

\* not send_flag or str(send_flag).strip().upper() != 'X', negated
Flagged(v) ==
    /\ v # PyNone
    /\ v # PyStr(<<>>)
    /\ Upper(Strip(ToStr(v))) = <<"X">>

RECURSIVE StrippedNonEmpty(_)
\* [e.strip() for e in parts if e.strip()]
StrippedNonEmpty(parts) ==
    IF parts = <<>> THEN <<>>
    ELSE (IF Strip(Head(parts)) = <<>> THEN <<>> ELSE <<Strip(Head(parts))>>)
         \o StrippedNonEmpty(Tail(parts))

\* parse_emails(email_cell): <<to_email, cc_email_str>>
parse_emails(v) ==
    IF v = PyNone \/ v = PyStr(<<>>) THEN <<<<>>, <<>>>>
    ELSE LET parts == StrippedNonEmpty(Split(ToStr(v), ";"))
         IN <<IF parts = <<>> THEN <<>> ELSE parts[1],
              IF Len(parts) > 1 THEN JoinWith(Tail(parts), <<";", " ">>) ELSE <<>>>>

RECURSIVE CollectRecipients(_, _, _)
\* the loop over the data rows (lines 394-512) from row on; of a recipient the
\* model keeps the addresses and the worksheet row it was built from
CollectRecipients(ws, row, last_row) ==
    IF row > last_row THEN <<>>
    ELSE LET emails == parse_emails(CellValue(ws, row, AddressColumn))
         IN (IF Flagged(CellValue(ws, row, FlagColumn)) /\ emails[1] # <<>>
             THEN <<[row |-> row, to_email |-> emails[1], cc_email |-> emails[2]]>>
             ELSE <<>>)
            \o CollectRecipients(ws, row + 1, last_row)

load_data_from_excel(wb) ==
    LET ws == ChosenSheet(wb)
    IN CollectRecipients(ws, HeaderRow(ws) + 1, RowsCount(ws))

\* ---- the inputs of the model
\* a row of cells: the flag, five more cells, a seventh that holds nothing, and the
\* address cell
DataRow(flag, address) ==
    [c \in 1..SheetColumns |->
        IF c = FlagColumn THEN flag
        ELSE IF c = AddressColumn THEN address
        ELSE IF c = 7 THEN PyNone
        ELSE PyStr(<<"d">>)]

FlagCells == {PyStr(<<"X">>), PyStr(<<" ", "x", " ">>), PyStr(<<"N">>)}

AddressCells ==
    {PyStr(<<"a", "@", "x", ";", "m", "@", "x">>),
     PyStr(<<" ", ";", " ", "b", "@", "x">>),
     PyStr(<<";">>),
     PyNone}

SheetRows ==
    {[c \in 1..SheetColumns |-> PyNone], [c \in 1..SheetColumns |-> PyStr(<<"h">>)]}
    \cup {DataRow(flag, address) : flag \in FlagCells, address \in AddressCells}

\* the worksheets whose last row holds something
SheetsOf(max) ==
    {rows \in UNION {[1..n -> SheetRows] : n \in 0..max} :
        rows = <<>> \/ rows[Len(rows)] # [c \in 1..SheetColumns |-> PyNone]}

\* another worksheet, with a flagged row
OtherRows ==
    <<[c \in 1..SheetColumns |-> PyStr(<<"h">>)],
      DataRow(PyStr(<<"X">>), PyStr(<<"s", "@", "x">>))>>

WorkbooksOf(max) ==
    {<<[name |-> SHEET_NAME, rows |-> rows]>> : rows \in SheetsOf(max)}
    \cup {<<[name |-> "Sheet1", rows |-> OtherRows], [name |-> SHEET_NAME, rows |-> rows]>> :
             rows \in SheetsOf(max)}
    \cup {<<[name |-> "Cards", rows |-> rows], [name |-> "Sheet1", rows |-> OtherRows]>> :
             rows \in SheetsOf(max)}

LoadInit ==
    /\ workbook \in WorkbooksOf(MaxSheetRows)
    /\ recipients = <<>>
    /\ load_pc = "call"

\* the call _load_data_from_excel() on the workbook found
load_call ==
    /\ load_pc = "call"
    /\ recipients' = load_data_from_excel(workbook)
    /\ load_pc' = "done"
    /\ UNCHANGED <<nonLoadVars, workbook>>

LoadNext == load_call

(***************************************************************************)
(* create_individual_statements (Create Statements): one workbook per card  *)
(***************************************************************************)
\* ---- bounds of the model
MaxDataRows == 3        \* rows of the Data sheet below the header row
MaxEntries == 1         \* entries of cardfiles

\* ---- what the code names
FirstRow == 12          \* transactions are written from row 12
ClearLast == 307        \* iter_rows(min_row=12, max_row=307, ...)
StatementCols == 6      \* columns A to F
DataCols == 15          \* the columns of a Data row the code reads reach row[14]
AccountNumberCol == 1   \* the column headed ACC.ACCOUNT NUMBER
AccountNameCol == 2     \* the column headed ACC.ACCOUNT NAME

\* the Data columns written to the Statement columns A..F: row[2], row[3],
\* row[14], row[9], row[8], row[12] (0-based there, 1-based here)
SourceCols == <<3, 4, 15, 10, 9, 13>>

Letters == {"a", "b", "x", "A", "B", "X"}

\* str.title(): a letter that follows no letter is upper case, every other lower
Title(s) ==
    [k \in DOMAIN s |->
        IF k = 1 \/ s[k - 1] \notin Letters THEN UpperChar(s[k]) ELSE LowerChar(s[k])]

\* the clean-up of one transaction cell (lines 1177-1183)
TitleCell(v) ==
    IF v.kind = "str" /\ Strip(v.text) # <<>> THEN PyStr(Title(Strip(v.text))) ELSE v

\* the clean-up of one header cell (lines 1188-1193)
TitleHeaderCell(v) == IF v.kind = "str" THEN PyStr(Title(Strip(v.text))) ELSE v

\* a Statement sheet: its transaction rows (row number -> cells A..F, for the rows
\* that hold anything), the header cells B3 and B5 and the range F8 totals
EmptySheet ==
    [rows |-> EmptyDict, B3 |-> PyNone, B5 |-> PyNone, F8 |-> <<0, 0>>]

\* for mutation: nothing emptied
NotCleared(sheet) == sheet

\* the rows FirstRow..ClearLast emptied (lines 1135-1137)
Cleared(sheet) ==
    [sheet EXCEPT !.rows = [r \in (DOMAIN sheet.rows) \ (FirstRow..ClearLast) |-> sheet.rows[r]]]

RECURSIVE FilterByCard(_, _)
\* df_data[df_data['ACC.ACCOUNT NUMBER'] == card_number]
FilterByCard(rows, card_number) ==
    IF rows = <<>> THEN <<>>
    ELSE (IF Head(rows)[AccountNumberCol] = card_number
             /\ card_number.kind \notin {"None", "NaN"}
          THEN <<Head(rows)>> ELSE <<>>)
         \o FilterByCard(Tail(rows), card_number)

\* the cells A..F written for one Data row (lines 1152-1161), cleaned up
StatementRow(row) == [c \in 1..StatementCols |-> TitleCell(row[SourceCols[c]])]

\* the Statement sheet for the rows filtered_df of a card (lines 1135-1193)
FillSheet(sheet, card_number, filtered_df) ==
    LET cleared == Cleared(sheet)
        written == [r \in (DOMAIN cleared.rows)
                           \cup (FirstRow..(FirstRow + Len(filtered_df) - 1)) |->
                       IF r \in FirstRow..(FirstRow + Len(filtered_df) - 1)
                       THEN StatementRow(filtered_df[r - FirstRow + 1])
                       ELSE cleared.rows[r]]
    IN [rows |-> written,
        B3 |-> TitleHeaderCell(filtered_df[1][AccountNameCol]),
        B5 |-> TitleHeaderCell(card_number),
        F8 |-> <<FirstRow, FirstRow - 1 + Len(filtered_df)>>]

Xlsx == <<".", "x", "l", "s", "x">>

EndsWith(s, suffix) ==
    Len(s) >= Len(suffix) /\ SubSeq(s, Len(s) - Len(suffix) + 1, Len(s)) = suffix

\* the filename_suffix argument
FilenameSuffix == <<"s">>

\* save_path (lines 1196-1203), within statements_folder
SavePath(filename) ==
    LET full == IF EndsWith(Lower(filename), Xlsx) THEN filename ELSE filename \o Xlsx
    IN SubSeq(full, 1, Len(full) - Len(Xlsx)) \o <<" ">> \o FilenameSuffix
       \o SubSeq(full, Len(full) - Len(Xlsx) + 1, Len(full))

RECURSIVE ProcessEntries(_, _, _, _, _)
\* the loop over cardfiles from entry k on; save_ok[k] tells whether
\* statement_wb.save succeeds for entry k; S holds the files and the saves
ProcessEntries(S, k, entries, dataRows, save_ok) ==
    IF k > Len(entries) THEN S
    ELSE LET card_number == entries[k][1]
             filename    == entries[k][2]
             filtered_df == FilterByCard(dataRows, card_number)
             sheet       == FillSheet(blank, card_number, filtered_df)
         IN ProcessEntries(
                IF filename = <<>> \/ filtered_df = <<>>
                   \/ filtered_df[1][AccountNameCol].kind # "str" \/ ~save_ok[k]
                THEN S
                ELSE [files |-> DictPut(S.files, SavePath(filename), sheet),
                      saved |-> Append(S.saved, [entry |-> k, path |-> SavePath(filename),
                                                 sheet |-> sheet])],
                k + 1, entries, dataRows, save_ok)

\* ---- the inputs of the model
CardNumbers == {PyStr(<<"1">>), PyStr(<<"2">>)}

\* the account number cells of the Data sheet: a card number as text or as a number
AccountCells == CardNumbers \cup {PyNum(<<"1">>)}

Descriptions == {PyStr(<<" ", "a", "b", " ", "X", "a">>), PyNum(<<"7">>)}

\* the text that tells the n-th Data row apart
RowTag == <<<<"1">>, <<"2">>, <<"3">>, <<"4">>>>

\* a Data row: account number and name, a description, and a bank reference that
\* tells the rows apart
DataSheetRow(n, account, description) ==
    [c \in 1..DataCols |->
        IF c = AccountNumberCol THEN account
        ELSE IF c = AccountNameCol THEN PyStr(<<"a", "b">>)
        ELSE IF c = 9 THEN description
        ELSE IF c = 15 THEN PyStr(<<"r">> \o RowTag[n])
        ELSE IF c = 13 THEN PyNum(<<"5">>)
        ELSE PyNone]

DataSheetsOf(max) ==
    UNION {{[r \in 1..n |-> DataSheetRow(r, accounts[r], descriptions[r])] :
                accounts \in [1..n -> AccountCells],
                descriptions \in [1..n -> Descriptions]} : n \in 0..max}

FileNames == {<<>>, <<"f">>}

CardFileListsOf(max) == UNION {[1..n -> CardNumbers \X FileNames] : n \in 0..max}

\* content left in the blank file's transaction rows
StaleRow == [c \in 1..StatementCols |-> PyStr(<<"o", "l", "d">>)]

BlankSheets ==
    {[EmptySheet EXCEPT !.rows = [r \in stale |-> StaleRow]] :
        stale \in {{}, {FirstRow, FirstRow + 1, ClearLast}}}

StmtInit ==
    /\ data_rows \in DataSheetsOf(MaxDataRows)
    /\ cardfiles \in CardFileListsOf(MaxEntries)
    /\ blank \in BlankSheets
    /\ saved = <<>>
    /\ statement_files = EmptyDict
    /\ stmt_pc = "call"

\* the call create_individual_statements(...)
create_individual_statements(save_ok) ==
    /\ stmt_pc = "call"
    /\ LET S == ProcessEntries([files |-> statement_files, saved |-> <<>>], 1, cardfiles,
                               data_rows, save_ok)
       IN /\ statement_files' = S.files
          /\ saved' = S.saved
    /\ stmt_pc' = "done"
    /\ UNCHANGED <<nonStmtVars, data_rows, cardfiles, blank>>

StmtNext == \E save_ok \in [DOMAIN cardfiles -> BOOLEAN] : create_individual_statements(save_ok)

(***************************************************************************)
(* extract_cost_centre_codes (process_delegation.py): the cost centre codes *)
(* of a page of a delegation form                                           *)
(***************************************************************************)
\* ---- bounds of the model
MaxPagePieces == 3      \* pieces a page text is put together from

\* ---- what the code names
MinDigits == 8          \* \d{8,}
TenDigits == 10         \* len(c) == 10
EightDigits == 8        \* len(c) == 8

\* the characters of the model outside ASCII, by name: U+00A0, U+200B, U+00E9
NBSP == "nbsp"
ZWSP == "zwsp"
EAcute == "e-acute"
NonAscii == {NBSP, ZWSP, EAcute}

\* ' // '
CodeSeparator == <<" ", "/", "/", " ">>

RECURSIVE Without(_, _)
\* re.sub(r'[^\x00-\x7F]', '', s) and str.replace(c, '') for single characters:
\* the text without the characters of cs
Without(s, cs) ==
    IF s = <<>> THEN <<>>
    ELSE IF Head(s) \in cs THEN Without(Tail(s), cs)
    ELSE <<Head(s)>> \o Without(Tail(s), cs)

\* lines 48-50
CleanText(page) ==
    LET spaced == StrReplace(page, <<NBSP>>, <<" ">>)
        joined == Without(spaced, {ZWSP})
        ascii == Without(joined, NonAscii)
    IN StrReplace(ascii, <<"|">>, <<" ">>)

\* \w of the regular expression, for the ASCII characters of the model
WordChars == Digits \cup Letters \cup {"_"}

IsWord(s, p) == p \in DOMAIN s /\ s[p] \in WordChars

\* \b between positions p - 1 and p
Boundary(s, p) == IsWord(s, p - 1) # IsWord(s, p)

RECURSIVE DigitRunEnd(_, _)
\* the position after the digits that start at p
DigitRunEnd(s, p) ==
    IF p <= Len(s) /\ s[p] \in Digits THEN DigitRunEnd(s, p + 1) ELSE p

\* a match of \b\d{8,}\b that starts at p: the position after it (the longest the
\* greedy \d{8,} can keep with a \b behind it), or 0 for no match
MatchAt(s, p) ==
    LET ends == {q \in (p + MinDigits)..DigitRunEnd(s, p) : Boundary(s, q)}
    IN IF Boundary(s, p) /\ ends # {} THEN Max(ends) ELSE 0

RECURSIVE FindAll(_, _)
\* re.findall(r'\b\d{8,}\b', s), scanning from position p
FindAll(s, p) ==
    IF p > Len(s) THEN <<>>
    ELSE IF MatchAt(s, p) # 0
    THEN <<SubSeq(s, p, MatchAt(s, p) - 1)>> \o FindAll(s, MatchAt(s, p))
    ELSE FindAll(s, p + 1)

\* ord() of a digit
DigitOrd(c) ==
    CASE c = "0" -> 48 [] c = "1" -> 49 [] c = "2" -> 50 [] c = "3" -> 51
      [] c = "4" -> 52 [] c = "5" -> 53 [] c = "6" -> 54 [] c = "7" -> 55
      [] c = "8" -> 56 [] c = "9" -> 57

RECURSIVE StrLess(_, _)
\* a < b for two strings of digits
StrLess(a, b) ==
    IF b = <<>> THEN FALSE
    ELSE IF a = <<>> THEN TRUE
    ELSE IF Head(a) = Head(b) THEN StrLess(Tail(a), Tail(b))
    ELSE DigitOrd(Head(a)) < DigitOrd(Head(b))

RECURSIVE Sorted(_)
\* sorted(S) for a set of strings of digits
Sorted(S) ==
    IF S = {} THEN <<>>
    ELSE LET least == CHOOSE a \in S : \A b \in S \ {a} : StrLess(a, b)
         IN <<least>> \o Sorted(S \ {least})

RECURSIVE OfLength(_, _)
\* [c for c in unique_codes if len(c) == n]
OfLength(cs, n) ==
    IF cs = <<>> THEN <<>>
    ELSE IF Len(Head(cs)) = n THEN <<Head(cs)>> \o OfLength(Tail(cs), n)
    ELSE OfLength(Tail(cs), n)

extract_cost_centre_codes(page) ==
    LET clean_text == CleanText(page)
        found == FindAll(clean_text, 1)
        unique_codes == Sorted({found[k] : k \in DOMAIN found})
        ten_digit_codes == OfLength(unique_codes, TenDigits)
        eight_digit_codes == OfLength(unique_codes, EightDigits)
    IN [ten_digit |-> JoinWith(ten_digit_codes, CodeSeparator),
        eight_digit |-> JoinWith(eight_digit_codes, CodeSeparator)]

\* ---- the page texts of the model
Code8 == <<"1", "2", "3", "4", "5", "6", "7", "8">>

PagePieces ==
    {<<"1", "2", "3", "4">>, Code8, <<"0", "0", "0", "0", "0", "0", "0", "9">>,
     Code8 \o <<"9">>, Code8 \o <<"9", "0">>,
     <<" ">>, <<"a">>, <<"|">>, <<ZWSP>>, <<NBSP>>, <<EAcute>>}

PageTextsOf(max) == {Flatten(ps) : ps \in UNION {[1..n -> PagePieces] : n \in 0..max}}

NoCodes == [ten_digit |-> <<>>, eight_digit |-> <<>>]

CodesInit ==
    /\ page_text \in PageTextsOf(MaxPagePieces)
    /\ cost_codes = NoCodes
    /\ codes_pc = "call"

\* the call extract_cost_centre_codes(page_text)
codes_call ==
    /\ codes_pc = "call"
    /\ cost_codes' = extract_cost_centre_codes(page_text)
    /\ codes_pc' = "done"
    /\ UNCHANGED <<nonCodesVars, page_text>>

CodesNext == codes_call


(***************************************************************************)
(* update_excel (process_delegation.py): a delegation record is added to    *)
(* the worksheet FULL LIST                                                  *)
(***************************************************************************)
\* ---- bounds of the model
MaxRecordRows == 3      \* worksheet rows from FirstDataRow on that may hold something

\* ---- what the code names
FirstDataRow == 5       \* row = 5; range(last_used_row, 4, -1)
Cutoff == 75            \* cutoff=0.75, in hundredths
CodePrefixShort == 4    \* smallest[:4]
CodePrefixLong == 6     \* smallest[:6]
IDOK == 1               \* MessageBoxW's answer for OK

\* ---- the worksheet: a dict from <<column, row>> to the value of a cell that
\* holds something
\* ws.range(f"{col}{row}").value
RangeValue(ws, col, row) ==
    IF <<col, row>> \in DOMAIN ws THEN ws[<<col, row>>] ELSE PyNone

\* ws.range(f"{col}{row}").value = v: None and the empty string leave the cell
\* holding nothing
SetRange(ws, col, row, v) ==
    IF v = PyNone \/ v = PyStr(<<>>)
    THEN [x \in (DOMAIN ws) \ {<<col, row>>} |-> ws[x]]
    ELSE [x \in (DOMAIN ws) \cup {<<col, row>>} |-> IF x = <<col, row>> THEN v ELSE ws[x]]

RECURSIVE SetRanges(_, _)
\* a sequence of assignments <<col, row, v>>, in order
SetRanges(ws, writes) ==
    IF writes = <<>> THEN ws
    ELSE SetRanges(SetRange(ws, Head(writes)[1], Head(writes)[2], Head(writes)[3]),
                   Tail(writes))

RECURSIVE find_first_empty_row_from(_, _)
\* find_first_empty_row's loop, from a row on
find_first_empty_row_from(ws, row) ==
    IF RangeValue(ws, "A", row) = PyNone THEN row
    ELSE find_first_empty_row_from(ws, row + 1)

find_first_empty_row(ws) == find_first_empty_row_from(ws, FirstDataRow)

\* sheet.range('A' + last row of the sheet).end('up').row: the last row of
\* column A that holds something, row 1 for an empty column
LastUsedRow(ws) ==
    LET used == {x[2] : x \in {y \in DOMAIN ws : y[1] = "A"}}
    IN IF used = {} THEN 1 ELSE Max(used)

RECURSIVE IntOfDigits(_)
IntOfDigits(ds) ==
    IF ds = <<>> THEN 0
    ELSE 10 * IntOfDigits(SubSeq(ds, 1, Len(ds) - 1)) + (DigitOrd(ds[Len(ds)]) - 48)

\* int(val) with ValueError and TypeError caught: 0
IntOrZero(v) ==
    IF v.kind = "num" THEN IntOfDigits(v.text)
    ELSE IF v.kind = "str" /\ Strip(v.text) # <<>>
            /\ \A k \in DOMAIN Strip(v.text) : Strip(v.text)[k] \in Digits
    THEN IntOfDigits(Strip(v.text))
    ELSE 0

RECURSIVE DigitsOfInt(_)
\* str(n) for n >= 0
DigitsOfInt(n) ==
    LET last == CHOOSE c \in Digits : DigitOrd(c) = 48 + (n % 10)
    IN IF n < 10 THEN <<last>> ELSE DigitsOfInt(n \div 10) \o <<last>>

get_next_row_and_count(ws) ==
    LET last_used_row == LastUsedRow(ws)
        filled == {row \in FirstDataRow..last_used_row : RangeValue(ws, "A", row) # PyNone}
        prev_count == IF filled = {} THEN 0 ELSE IntOrZero(RangeValue(ws, "A", Max(filled)))
    IN [next_row |-> last_used_row + 1, new_count |-> prev_count + 1]

\* ---- names
\* " ".join(names[:-1]) if len(names) >= 2 else (names[0] if names else "")
FirstNameOf(names) ==
    IF Len(names) >= 2 THEN JoinWith(SubSeq(names, 1, Len(names) - 1), <<" ">>)
    ELSE IF names # <<>> THEN names[1] ELSE <<>>

\* names[-1] if len(names) >= 2 else ""
LastNameOf(names) == IF Len(names) >= 2 THEN names[Len(names)] ELSE <<>>

\* lines 217-221
FullNameOf(delegated_name) ==
    LET names == SplitWords(Strip(delegated_name))
    IN Strip(LastNameOf(names) \o <<" ">> \o FirstNameOf(names))

Active == <<"A", "c", "t", "i", "v", "e">>
Inactive == <<"I", "n", "a", "c", "t", "i", "v", "e">>
DelegatedOfficer == <<"D", "e", "l", "e", "g", "a", "t", "e", "d", " ", "O", "f", "f", "i", "c", "e", "r">>
\* f"Set inactive on {today_str} due to new delegation."
InactiveNote == <<"S", "e", "t", " ", "i", "n", "a", "c", "t", "i", "v", "e">>

\* str(ws.range(f"G{row}").value).strip().lower() == "active"
IsActive(ws, row) == Lower(Strip(ToStr(RangeValue(ws, "G", row)))) = Lower(Active)

\* lines 244-248: the matched row is set inactive
SetInactive(ws, row) ==
    [ws |-> SetRanges(ws, << <<"G", row, PyStr(Inactive)>>, <<"H", row, PyStr(InactiveNote)>> >>),
     matched_row |-> row,
     matched_type_value |-> RangeValue(ws, "E", row)]

NoMatch(ws) == [ws |-> ws, matched_row |-> 0, matched_type_value |-> PyNone]

RECURSIVE ExactMatch(_, _, _, _, _)
\* lines 231-251: the loop over used_rows = D5:D{next_row}, from a row on; answer
\* is what the user answers to every message box
ExactMatch(ws, row, last, lower_full_name, answer) ==
    IF row > last THEN NoMatch(ws)
    ELSE LET name == RangeValue(ws, "D", row)
         IN IF /\ name.kind = "str"
               /\ Lower(Strip(name.text)) = lower_full_name
               /\ answer = IDOK
               /\ IsActive(ws, row)
            THEN SetInactive(ws, row)
            ELSE ExactMatch(ws, row + 1, last, lower_full_name, answer)

\* SequenceMatcher(None, a, b).ratio() in hundredths, for the names of the model
Ratio(a, b) ==
    CASE a = b -> 100
      [] {a, b} = {<<"d", "o", "e", " ", "j", "o">>, <<"d", "o", "e", " ", "j", "o", "e">>} -> 92
      [] OTHER -> 60

\* difflib.get_close_matches(full_name, possible_names, n=1, cutoff=0.75): the
\* best candidate, as a sequence of at most one name
CloseMatches(full_name, possible_names) ==
    LET close == {c \in possible_names : Ratio(full_name, c) >= Cutoff}
    IN IF close = {} THEN <<>>
       ELSE <<CHOOSE c \in close : \A d \in close : Ratio(full_name, d) <= Ratio(full_name, c)>>

RECURSIVE GuessedMatch(_, _, _, _, _)
\* lines 259-276: the loop over used_rows for the guessed name
GuessedMatch(ws, row, last, guessed, answer) ==
    IF row > last THEN NoMatch(ws)
    ELSE IF /\ RangeValue(ws, "D", row) = PyStr(guessed)
            /\ answer = IDOK
            /\ IsActive(ws, row)
    THEN SetInactive(ws, row)
    ELSE GuessedMatch(ws, row + 1, last, guessed, answer)

\* lines 253-276
FuzzyMatch(ws, last, full_name, answer) ==
    LET possible_names == {RangeValue(ws, "D", row).text :
                              row \in {r \in FirstDataRow..last :
                                          RangeValue(ws, "D", r).kind = "str"}}
        close_matches == CloseMatches(full_name, possible_names)
    IN IF close_matches = <<>> THEN NoMatch(ws)
       ELSE GuessedMatch(ws, FirstDataRow, last, close_matches[1], answer)

RECURSIVE SplitOn(_, _, _)
\* str.split(sep) for a separator of several characters; cur is the piece being read
SplitOn(s, sep, cur) ==
    IF s = <<>> THEN <<cur>>
    ELSE IF StartsWithAt(s, 1, sep)
    THEN <<cur>> \o SplitOn(SubSeq(s, Len(sep) + 1, Len(s)), sep, <<>>)
    ELSE SplitOn(Tail(s), sep, Append(cur, Head(s)))

\* lines 297-309: the cells derived from the 10-digit codes
TenCodeWrites(ten_digit, row) ==
    LET parts == SplitOn(ten_digit, CodeSeparator, <<>>)
        ten_codes == Sorted({parts[k] : k \in {j \in DOMAIN parts : Len(parts[j]) = TenDigits}})
        smallest == ten_codes[1]
        largest == ten_codes[Len(ten_codes)]
    IN IF ten_codes = <<>> THEN <<>>
       ELSE << <<"J", row, PyStr(SubSeq(smallest, 1, CodePrefixShort))>>,
               <<"L", row, PyStr(SubSeq(smallest, 1, CodePrefixLong))>>,
               <<"N", row, PyStr(smallest)>>,
               <<"R", row, PyStr(smallest)>>,
               <<"P", row, PyStr(largest)>>,
               <<"S", row, PyStr(largest)>> >>

\* columns = ["AE", "AH", ...]
LimitColumns == <<"AE", "AH", "AK", "AN", "AQ", "AT", "AW", "AZ", "BC", "BF", "BI", "BL">>

\* lines 312-314
LimitWrites(limits, row) ==
    [i \in 1..(IF Len(limits) < Len(LimitColumns) THEN Len(limits) ELSE Len(LimitColumns)) |->
        <<LimitColumns[i], row, limits[i]>>]

\* lines 278-322: the cells of the new record; the sequence number goes to
\* new_row, every other field to next_row
RecordWrites(data, limits, codes, full_name, matched_type_value, new_row, new_count, next_row) ==
    LET names == SplitWords(full_name)
    IN << <<"A", new_row, PyNum(DigitsOfInt(new_count))>>,
          <<"B", next_row, PyStr(FirstNameOf(names))>>,
          <<"C", next_row, PyStr(LastNameOf(names))>>,
          <<"D", next_row, PyStr(full_name)>>,
          <<"F", next_row, PyStr(DelegatedOfficer)>> >>
       \o (IF matched_type_value \notin {PyNone, PyStr(<<>>)}
           THEN << <<"E", next_row, matched_type_value>> >> ELSE <<>>)
       \o << <<"G", next_row, PyStr(Active)>>,
             <<"I", next_row, PyStr(data.delegated_title)>>,
             <<"T", next_row, PyStr(codes.ten_digit)>>,
             <<"U", next_row, PyStr(codes.eight_digit)>> >>
       \o TenCodeWrites(codes.ten_digit, next_row)
       \o LimitWrites(limits, next_row)
       \o << <<"BS", next_row, PyStr(data.manager_name)>>,
             <<"BT", next_row, PyStr(data.manager_title)>>,
             <<"BU", next_row, PyStr(data.budget_name)>>,
             <<"BV", next_row, PyStr(data.budget_title)>>,
             <<"BW", next_row, PyStr(data.signed_date)>> >>

\* update_excel on worksheet ws: the worksheet saved and the rows it wrote to
update_excel_result(ws, data, limits, codes, answer) ==
    LET counted == get_next_row_and_count(ws)
        new_row == counted.next_row
        new_count == counted.new_count
        next_row == find_first_empty_row(ws)
        full_name == FullNameOf(data.delegated_name)
        exact == ExactMatch(ws, FirstDataRow, next_row, Lower(full_name), answer)
        match == IF exact.matched_row # 0 THEN exact
                 ELSE FuzzyMatch(exact.ws, next_row, full_name, answer)
    IN [ws |-> SetRanges(match.ws,
                         RecordWrites(data, limits, codes, full_name,
                                      match.matched_type_value, new_row, new_count, next_row)),
        new_row |-> new_row, new_count |-> new_count, next_row |-> next_row,
        matched_row |-> match.matched_row]

\* ---- the worksheets and forms of the model
DoeJo == <<"d", "o", "e", " ", "j", "o">>
DoeJoe == <<"d", "o", "e", " ", "j", "o", "e">>

\* what a row holds: column A (sequence number), D (full name), G (status), E (type)
SequenceCells == {PyNone, PyNum(<<"7">>), PyStr(<<"n">>)}

RecordRow(a, d, g) ==
    [x \in {c \in {"A", "D", "G", "E"} :
               \/ c = "A" /\ a # PyNone
               \/ c \in {"D", "E"} /\ d # PyNone
               \/ c = "G" /\ d # PyNone /\ g # PyNone} |->
        CASE x = "A" -> a [] x = "D" -> d [] x = "G" -> g [] x = "E" -> PyStr(<<"X">>)]

RecordRows ==
    {RecordRow(a, PyNone, PyNone) : a \in SequenceCells}
    \cup {RecordRow(a, PyStr(d), g) :
             a \in SequenceCells, d \in {DoeJo, DoeJoe}, g \in {PyStr(Active), PyStr(Inactive)}}

\* the header rows: column A holds a heading in row 4, or nothing at all
HeaderCells == {<<>>, << <<"A", FirstDataRow - 1>> >>}

WorksheetOf(header, rows) ==
    LET keys == {header[k] : k \in DOMAIN header}
                \cup {<<c, FirstDataRow + k - 1>> : c \in {"A", "D", "G", "E"}, k \in DOMAIN rows}
        held == {x \in keys :
                    \/ x[2] < FirstDataRow
                    \/ x[1] \in DOMAIN rows[x[2] - FirstDataRow + 1]}
    IN [x \in held |->
           IF x[2] < FirstDataRow THEN PyStr(<<"N", "o">>)
           ELSE rows[x[2] - FirstDataRow + 1][x[1]]]

WorksheetsOf(max) ==
    {WorksheetOf(header, rows) : header \in HeaderCells, rows \in [1..max -> RecordRows]}

Forms ==
    {[data |-> [delegated_name |-> name, delegated_title |-> <<"t">>,
                manager_name |-> <<"m">>, manager_title |-> <<"u">>,
                budget_name |-> <<"b">>, budget_title |-> <<"v">>,
                signed_date |-> <<"1", "/", "2">>],
      limits |-> [i \in 1..12 |-> PyStr(<<"N", "o", "n", "e">>)],
      codes |-> codes] :
        name \in {<<"j", "o", " ", "d", "o", "e">>, <<" ", "d", "o", "e">>},
        codes \in {NoCodes,
                   [ten_digit |-> Code8 \o <<"9", "0">>, eight_digit |-> Code8]}}

NoRows == [new_row |-> 0, new_count |-> 0, next_row |-> 0, matched_row |-> 0]

DelegInit ==
    /\ full_list \in WorksheetsOf(MaxRecordRows)
    /\ full_list_before = full_list
    /\ form \in Forms
    /\ rows_written = NoRows
    /\ deleg_pc = "call"

\* the call update_excel(data, limits, codes); answer is the user's answer to the
\* message boxes
update_excel(answer) ==
    /\ deleg_pc = "call"
    /\ \E res \in {update_excel_result(full_list, form.data, form.limits, form.codes, answer)} :
          /\ full_list' = res.ws
          /\ rows_written' = [new_row |-> res.new_row, new_count |-> res.new_count,
                              next_row |-> res.next_row, matched_row |-> res.matched_row]
    /\ deleg_pc' = "done"
    /\ UNCHANGED <<nonDelegVars, full_list_before, form>>

DelegNext == \E answer \in {IDOK, 2} : update_excel(answer)


(***************************************************************************)
(* Specifications: one per subsystem; the other subsystems stay idle.       *)
(***************************************************************************)
RunnerIdle ==
    /\ now = 0
    /\ utc_offset = 0
    /\ execs = <<>>
    /\ running_executions = <<>>
    /\ output_queues = EmptyDict
    /\ db = <<>>
    /\ monitor_active = TRUE
    /\ ret = Returned("init", "None", NoId)

ReplIdle ==
    /\ template = <<>>
    /\ row_map = <<>>
    /\ replaced = <<>>
    /\ repl_pc = "idle"

PvIdle ==
    /\ pv_text = <<>>
    /\ variables = <<>>
    /\ processed = <<>>
    /\ pv_pc = "idle"

BulkIdle ==
    /\ job_queue = <<>>
    /\ bulk_ret = NoReport

CleanIdle ==
    /\ df = EmptyFrame
    /\ cleaned = [kind |-> "none"]
    /\ clean_pc = "idle"

BatchIdle ==
    /\ cardholders = <<>>
    /\ files = EmptyDict
    /\ batch_ret = NoBatch

LoadIdle ==
    /\ workbook = <<>>
    /\ recipients = <<>>
    /\ load_pc = "idle"

StmtIdle ==
    /\ data_rows = <<>>
    /\ cardfiles = <<>>
    /\ blank = EmptySheet
    /\ saved = <<>>
    /\ statement_files = EmptyDict
    /\ stmt_pc = "idle"

CodesIdle ==
    /\ page_text = <<>>
    /\ cost_codes = NoCodes
    /\ codes_pc = "idle"

DelegIdle ==
    /\ full_list = EmptyDict
    /\ full_list_before = EmptyDict
    /\ form = <<>>
    /\ rows_written = NoRows
    /\ deleg_pc = "idle"

Init == RunnerInit /\ ReplIdle /\ PvIdle /\ BulkIdle /\ CleanIdle /\ BatchIdle
        /\ LoadIdle /\ StmtIdle /\ CodesIdle /\ DelegIdle

Next == RunnerNext

\* the ScriptRunner with its monitor and the clock
Spec == Init /\ [][Next]_vars

\* the ScriptRunner with the scripts' output and the reader threads
SpecOutput == Init /\ [][OutputNext]_vars

InitRepl == RunnerIdle /\ ReplInit /\ PvIdle /\ BulkIdle /\ CleanIdle /\ BatchIdle
            /\ LoadIdle /\ StmtIdle /\ CodesIdle /\ DelegIdle

\* perform_replacements on every template and row map of the model
SpecRepl == InitRepl /\ [][ReplNext]_vars

InitVars == RunnerIdle /\ ReplIdle /\ PvInit /\ BulkIdle /\ CleanIdle /\ BatchIdle
            /\ LoadIdle /\ StmtIdle /\ CodesIdle /\ DelegIdle

\* process_variables on every text and variables dict of the model
SpecVars == InitVars /\ [][PvNext]_vars

InitBulk == RunnerIdle /\ ReplIdle /\ PvIdle /\ BulkInit /\ CleanIdle /\ BatchIdle
            /\ LoadIdle /\ StmtIdle /\ CodesIdle /\ DelegIdle

\* bulk email jobs created and executed, any number of times each
SpecBulk == InitBulk /\ [][BulkNext]_vars

InitClean == RunnerIdle /\ ReplIdle /\ PvIdle /\ BulkIdle /\ CleanInit /\ BatchIdle
             /\ LoadIdle /\ StmtIdle /\ CodesIdle /\ DelegIdle

\* _clean_cardholder_data on every table of the model
SpecClean == InitClean /\ [][CleanNext]_vars

InitBatch == RunnerIdle /\ ReplIdle /\ PvIdle /\ BulkIdle /\ CleanIdle /\ BatchInit
             /\ LoadIdle /\ StmtIdle /\ CodesIdle /\ DelegIdle

\* batch_generate_statements on every cardholder table of the model
SpecBatch == InitBatch /\ [][BatchNext]_vars

InitLoad == RunnerIdle /\ ReplIdle /\ PvIdle /\ BulkIdle /\ CleanIdle /\ BatchIdle
            /\ LoadInit /\ StmtIdle /\ CodesIdle /\ DelegIdle

\* _load_data_from_excel on every workbook of the model
SpecLoad == InitLoad /\ [][LoadNext]_vars

InitStmt == RunnerIdle /\ ReplIdle /\ PvIdle /\ BulkIdle /\ CleanIdle /\ BatchIdle
            /\ LoadIdle /\ StmtInit /\ CodesIdle /\ DelegIdle

\* create_individual_statements on every Data sheet, entry list and blank file of the model
SpecStmt == InitStmt /\ [][StmtNext]_vars

InitCodes == RunnerIdle /\ ReplIdle /\ PvIdle /\ BulkIdle /\ CleanIdle /\ BatchIdle
             /\ LoadIdle /\ StmtIdle /\ CodesInit /\ DelegIdle

\* extract_cost_centre_codes on every page text of the model
SpecCodes == InitCodes /\ [][CodesNext]_vars

InitDeleg == RunnerIdle /\ ReplIdle /\ PvIdle /\ BulkIdle /\ CleanIdle /\ BatchIdle
             /\ LoadIdle /\ StmtIdle /\ CodesIdle /\ DelegInit

\* update_excel on every worksheet and form of the model
SpecDeleg == InitDeleg /\ [][DelegNext]_vars

(***************************************************************************)
(* Claims about the ScriptRunner                                            *)
(***************************************************************************)
\* the status the monitor derives from an exit code
StatusForCode(code) == IF code = 0 THEN SUCCESS ELSE FAILED

\* C1: every turn of the monitor loop leaves every execution that run_script
\* started and whose process has exited with status SUCCESS when the exit code is
\* 0 and FAILED otherwise (so a polling client eventually sees a final status).
C1_MonitorSetsFinalStatus ==
    [][monitor_cycle =>
         \A i \in DOMAIN execs :
             execs[i].proc = "exited" => execs'[i].status = StatusForCode(execs[i].rc)]_vars

\* C2: every turn of the monitor loop that finds an execution RUNNING, its process
\* alive, more than script_info.timeout seconds after its start, terminates the
\* process and sets the status to TIMEOUT.
C2_MonitorTimesOut ==
    [][monitor_cycle =>
         \A i \in DOMAIN execs :
             (/\ execs[i].status = RUNNING
              /\ execs[i].proc = "alive"
              /\ now - execs[i].start_time > ScriptTimeout)
             => (execs'[i].proc = "exited" /\ execs'[i].status = TIMEOUT)]_vars

\* C8: once an execution's process has exited (and its reader thread, if it has
\* one, has finished), get_script_output of its execution ID returns the lines the
\* script wrote to stdout, in order.
C8_OutputIsWhatWasWritten ==
    \A i \in DOMAIN execs :
        (execs[i].proc = "exited" /\ execs[i].reader # "reading")
        => get_script_output(execs[i].execution_id) = [val |-> execs[i].written]

\* The executions the registry still refers to: what C1 and C2 say holds of these.
Registered == {running_executions[k][2] : k \in DOMAIN running_executions}

RegisteredGetFinalStatus ==
    [][monitor_cycle =>
         \A i \in Registered :
             execs[i].proc = "exited" => execs'[i].status = StatusForCode(execs[i].rc)]_vars

RegisteredAreTimedOut ==
    [][monitor_cycle =>
         \A i \in Registered :
             (/\ execs[i].status = RUNNING
              /\ execs[i].proc = "alive"
              /\ now - execs[i].start_time > ScriptTimeout)
             => (execs'[i].proc = "exited" /\ execs'[i].status = TIMEOUT)]_vars

\* C12: once an execution's status is SUCCESS, FAILED, CANCELLED or TIMEOUT, no
\* step of the runner (stop_script, the monitor's timeout handling, the monitor's
\* polling, cleanup) changes it.
C12_TerminalStatusIsFinal ==
    [][\A i \in DOMAIN execs :
           execs[i].status \in TerminalStatus => execs'[i].status = execs[i].status]_vars

\* What holds of the statuses the monitor itself derives from an exit code, and of
\* a start failure: SUCCESS and FAILED are final.
SuccessAndFailedAreFinal ==
    [][\A i \in DOMAIN execs :
           execs[i].status \in {SUCCESS, FAILED} => execs'[i].status = execs[i].status]_vars

\* an execution of the registry whose end the clean-up takes as more than one hour
\* in the past, as the monitor finds it at the start of a turn
EndedLongAgo(e) ==
    /\ e.status \in TerminalStatus
    /\ e.end_time # NoneVal
    /\ e.end_time < now - CleanupAge

\* C13: a turn of the monitor loop removes from running_executions every execution
\* that has a terminal status and whose end is more than one hour in the past (so
\* that every such execution is eventually removed).
C13_MonitorRemovesOldExecutions ==
    [][monitor_cycle =>
         \A k \in DOMAIN running_executions :
             EndedLongAgo(execs[running_executions[k][2]])
             => ~RegHas(running_executions', running_executions[k][1])]_vars

\* What holds instead: the monitor never removes an execution whose process was
\* started, however long ago it ended; it removes those that failed to start.
StartedAreNeverRemoved ==
    [][monitor_cycle =>
         \A k \in DOMAIN running_executions :
             execs[running_executions[k][2]].proc # "none"
             => RegHas(running_executions', running_executions[k][1])]_vars

FailedStartsAreRemoved ==
    [][monitor_cycle =>
         \A k \in DOMAIN running_executions :
             (/\ execs[running_executions[k][2]].proc = "none"
              /\ EndedLongAgo(execs[running_executions[k][2]]))
             => ~RegHas(running_executions', running_executions[k][1])]_vars

\* C14: a call of run_script that creates an execution gives it an ID that no
\* execution of the registry has, so the registry still refers to every execution
\* it referred to before the call.
C14_ExecutionIdIsFresh ==
    [][\A name \in Scripts, cb \in BOOLEAN, ok \in BOOLEAN :
           run_script(name, cb, ok) =>
               /\ ~RegHas(running_executions, ExecutionId(name))
               /\ \A i \in Registered :
                      \E k \in DOMAIN running_executions' : running_executions'[k][2] = i]_vars

\* What holds: the ID is fresh whenever no execution of that script is registered
\* that was created within the same second.
SameSecond(name) ==
    \E k \in DOMAIN running_executions : running_executions[k][1] = <<name, now>>

ExecutionIdIsFreshAcrossSeconds ==
    [][\A name \in Scripts, cb \in BOOLEAN, ok \in BOOLEAN :
           (run_script(name, cb, ok) /\ ~SameSecond(name)) =>
               /\ ~RegHas(running_executions, ExecutionId(name))
               /\ \A i \in Registered :
                      \E k \in DOMAIN running_executions' : running_executions'[k][2] = i]_vars

\* an execution whose completion the monitor has handled: the process has exited
\* and the monitor recorded its exit code and the status derived from it
Handled(e) ==
    /\ e.proc = "exited"
    /\ e.exit_code = e.rc
    /\ e.end_time # NoneVal
    /\ e.status = StatusForCode(e.rc)

\* C15: the monitor handles the completion of an execution once: a turn of the
\* monitor loop leaves an execution it has already handled, and the database row
\* of its run, as they are.
C15_CompletionHandledOnce ==
    [][monitor_cycle =>
         \A i \in Registered :
             Handled(execs[i]) => (execs'[i] = execs[i] /\ db' = db)]_vars

\* What holds: on an execution it has handled, a later turn changes nothing but the
\* end time.
CompletionRepeatsOnlyEndTime ==
    [][monitor_cycle =>
         \A i \in Registered :
             Handled(execs[i]) => execs'[i] = [execs[i] EXCEPT !.end_time = now]]_vars

C18_CleanupStopsEverything ==
    [][cleanup =>
         /\ ~monitor_active'
         /\ \A i \in DOMAIN execs : execs'[i].proc # "alive"]_vars

\* What holds: cleanup turns the flag off and terminates the process of every
\* execution the registry still refers to.
CleanupStopsRegistered ==
    [][cleanup =>
         /\ ~monitor_active'
         /\ \A i \in Registered : execs'[i].proc # "alive"]_vars

(***************************************************************************)
(* Claims about perform_replacements                                        *)
(***************************************************************************)
\* the <token> spans of a text: an opening bracket, at least one character that is
\* no angle bracket, a closing bracket
TokenSpans(t) ==
    {sp \in (DOMAIN t) \X (DOMAIN t) :
        /\ sp[1] + 1 < sp[2]
        /\ t[sp[1]] = "<"
        /\ t[sp[2]] = ">"
        /\ \A k \in (sp[1] + 1)..(sp[2] - 1) : t[k] \notin {"<", ">"}}

\* the name a token stands for: its inner text, trimmed and lower-cased
TokenName(t, sp) == Lower(Strip(SubSeq(t, sp[1] + 1, sp[2] - 1)))

\* the value a name stands for: the row's value, else a derived value, else the
\* generic date or time value, else the empty text
ValueOf(name, rm) ==
    LET row     == BuildLookup(rm, EmptyDict)
        derived == WithCardLast4(WithSplitName(WithFullName(row)))
    IN IF name \in DOMAIN row THEN row[name]
       ELSE IF name \in DOMAIN derived THEN derived[name]
       ELSE IF name \in GenericKeys THEN GenericValue(name)
       ELSE <<>>

RECURSIVE Substituted(_, _, _)
\* the text from position p on, each token span replaced by its value and
\* everything else (the inserted values included) left as it is
Substituted(t, p, rm) ==
    LET ahead == {sp \in TokenSpans(t) : sp[1] >= p}
    IN IF ahead = {} THEN SubSeq(t, p, Len(t))
       ELSE LET sp == CHOOSE x \in ahead : \A y \in ahead : x[1] <= y[1]
            IN SubSeq(t, p, sp[1] - 1) \o ValueOf(TokenName(t, sp), rm)
               \o Substituted(t, sp[2] + 1, rm)

\* C3: perform_replacements returns the template with every <token> replaced, in
\* one pass, by the value for the token's trimmed lower-cased name (the row's
\* value, else a derived value, else a generic date/time value, else the empty
\* text); no token of the template survives and inserted values are not scanned
\* again.
C3_EveryTokenReplacedOnce ==
    repl_pc = "done" => replaced = Substituted(template, 1, row_map)

\* a call on a template with two tokens, one of which needs trimming and one of
\* which stands for a value that itself holds a token
C3_Witness ==
    /\ repl_pc = "done"
    /\ Cardinality(TokenSpans(template)) >= 2
    /\ \E sp \in TokenSpans(template) :
           TokenName(template, sp) # SubSeq(template, sp[1] + 1, sp[2] - 1)
    /\ \E sp \in TokenSpans(template) :
           TokenSpans(ValueOf(TokenName(template, sp), row_map)) # {}
    /\ TokenSpans(replaced) # {}

(***************************************************************************)
(* Claims about process_variables                                           *)
(***************************************************************************)
\* the value of key k in a dict given as <<key, value>> pairs (the last pair wins)
ValueFor(items, k) ==
    LET at == {i \in DOMAIN items : items[i][1] = k}
    IN ToStr(items[CHOOSE i \in at : \A j \in at : j <= i][2])

\* the key whose {k} pattern starts at position p of s, if there is one
KeysAt(s, p, items) ==
    {items[i][1] : i \in {j \in DOMAIN items : StartsWithAt(s, p, Pattern(items[j][1]))}}

RECURSIVE EachReplaced(_, _, _)
\* the text from position p on, every occurrence of a {k} replaced by exactly
\* variables[k], everything else unchanged
EachReplaced(s, p, items) ==
    IF p > Len(s) THEN <<>>
    ELSE IF KeysAt(s, p, items) # {}
    THEN LET k == CHOOSE x \in KeysAt(s, p, items) : TRUE
         IN ValueFor(items, k) \o EachReplaced(s, p + Len(Pattern(k)), items)
    ELSE <<s[p]>> \o EachReplaced(s, p + 1, items)

\* C4: process_variables returns the text with every occurrence of {k}, for every
\* key k of variables, replaced by exactly variables[k], and then the built-in
\* placeholders {today}, {full_date}, {time}, {organisation} that remain replaced;
\* all other text is unchanged.
C4_EachPlaceholderGetsItsValue ==
    pv_pc = "done"
    => processed = ReplaceCommon(EachReplaced(pv_text, 1, variables), CommonKeys)

\* What holds: the claim, for values that hold no opening brace and texts in which
\* no placeholder opens inside another.
NoBraceInValues ==
    \A i \in DOMAIN variables : \A j \in DOMAIN ToStr(variables[i][2]) :
        ToStr(variables[i][2])[j] # "{"

NoNestedBraces ==
    \A i, j \in DOMAIN pv_text :
        (i < j /\ pv_text[i] = "{" /\ pv_text[j] = "{")
        => \E k \in i..j : pv_text[k] = "}"

EachPlaceholderGetsItsValueUnlessNested ==
    (pv_pc = "done" /\ NoBraceInValues /\ NoNestedBraces)
    => processed = ReplaceCommon(EachReplaced(pv_text, 1, variables), CommonKeys)

(***************************************************************************)
(* Claims about execute_bulk_job                                            *)
(***************************************************************************)
\* the job a report is about
ReportedJob == job_queue[CHOOSE j \in DOMAIN job_queue : job_queue[j].id = bulk_ret.job_id]

\* C5: after execute_bulk_job on an existing job has returned, success_count +
\* failed_count equals total_recipients and the job's results list holds exactly
\* one entry per recipient, in recipient order (so no recipient after a failed one
\* is left out).
C5_ReportAccountsForEveryRecipientOnce ==
    bulk_ret.kind = "report"
    => /\ bulk_ret.success_count + bulk_ret.failed_count = bulk_ret.total_recipients
       /\ bulk_ret.total_recipients = Len(ReportedJob.recipients)
       /\ Len(ReportedJob.results) = Len(ReportedJob.recipients)
       /\ \A i \in DOMAIN ReportedJob.results :
              ReportedJob.results[i].recipient = ReportedJob.recipients[i]

\* What holds: the counts add up, and the entries the call appended are one per
\* recipient, in recipient order, whatever the outcomes.
ReportCountsAddUp ==
    bulk_ret.kind = "report"
    => /\ bulk_ret.success_count + bulk_ret.failed_count = bulk_ret.total_recipients
       /\ LET n     == Len(ReportedJob.recipients)
              total == Len(ReportedJob.results)
          IN /\ total >= n
             /\ \A i \in 1..n :
                    ReportedJob.results[total - n + i].recipient = ReportedJob.recipients[i]

(***************************************************************************)
(* Claims about _clean_cardholder_data                                      *)
(***************************************************************************)
\* the name of row r of the input table: its first and last name cells, missing
\* values taken as empty
InputName(r) ==
    IF HasColumn(df, "First Name") /\ HasColumn(df, "Last Name")
    THEN NamedFullName(df.data[r][ColumnOf(df, "First Name")],
                       df.data[r][ColumnOf(df, "Last Name")])
    ELSE PositionalFullName(df.data[r][FirstNameCol], df.data[r][LastNameCol])

\* the email of row r of the input table: the first address of its email cell
InputEmail(r) == Strip(Split(FillStr(df.data[r][EmailCol]), ";")[1])

\* the rows of the input table with a non-empty name or an email containing '@'
CompleteInputRows == {r \in DOMAIN df.data : InputName(r) # <<>> \/ HasAt(InputEmail(r))}

EmailsOf(f) == [r \in DOMAIN f.data |-> f.data[r][ColumnOf(f, "email")].text]

\* the call completed and its result is as the claim says
CleanedAsClaimed ==
    /\ cleaned.kind = "frame"
    /\ \A r \in DOMAIN cleaned.frame.data :
           LET email == EmailsOf(cleaned.frame)[r]
               orig  == InputEmail(cleaned.frame.index[r])
           IN email = IF HasAt(orig) THEN orig ELSE <<>>
    /\ {cleaned.frame.index[r] : r \in DOMAIN cleaned.frame.index} = CompleteInputRows
    /\ \A r1, r2 \in DOMAIN cleaned.frame.index :
           r1 < r2 => cleaned.frame.index[r1] < cleaned.frame.index[r2]

\* C6: for every input table with at least 8 columns, whatever its email cells
\* hold, _clean_cardholder_data completes without raising, blanks every email
\* without '@' and keeps exactly the records with a non-empty name or an email
\* containing '@'.
C6_CleansEveryTable ==
    (clean_pc = "done" /\ Len(df.columns) >= MinPositional) => CleanedAsClaimed

\* What holds: the claim, for tables none of whose column labels is renamed by
\* column_mapping.
NoMappedLabel == \A c \in DOMAIN df.columns : df.columns[c] \notin DOMAIN column_mapping

CleansTablesWithoutMappedLabels ==
    (clean_pc = "done" /\ Len(df.columns) >= MinPositional /\ NoMappedLabel)
    => CleanedAsClaimed

(***************************************************************************)
(* Claims about batch_generate_statements                                   *)
(***************************************************************************)
\* the statement paths returned are one per cardholder generated for, in order,
\* every one of these cardholders is active, and every path names a file that
\* exists and holds that cardholder's statement
BatchAsClaimed ==
    /\ Len(batch_ret.paths) = Len(batch_ret.generated)
    /\ \A k \in DOMAIN batch_ret.generated :
           LET c == cardholders[batch_ret.generated[k]]
           IN /\ c.active
              /\ batch_ret.paths[k] = StatementPath(c)
              /\ batch_ret.paths[k] \in DOMAIN files
              /\ files[batch_ret.paths[k]] = StatementOf(c)
    /\ \A k1, k2 \in DOMAIN batch_ret.generated :
           k1 < k2 => batch_ret.generated[k1] < batch_ret.generated[k2]
    /\ {batch_ret.generated[k] : k \in DOMAIN batch_ret.generated}
           = {i \in DOMAIN cardholders : cardholders[i].active /\ batch_ret.outcomes[i]}

\* C7: batch_generate_statements returns exactly one statement path for each
\* active cardholder whose generation succeeded and none for inactive ones, and
\* every returned path names a file that exists and holds that cardholder's
\* statement.
C7_EveryPathHoldsItsStatement ==
    batch_ret.kind = "paths" => BatchAsClaimed

\* What holds: the claim, when no two active cardholders have names that are equal
\* once spaces are replaced by underscores.
DistinctStatementPaths ==
    \A i, j \in DOMAIN cardholders :
        (i # j /\ cardholders[i].active /\ cardholders[j].active)
        => StatementPath(cardholders[i]) # StatementPath(cardholders[j])

EveryPathHoldsItsStatementIfDistinct ==
    (batch_ret.kind = "paths" /\ DistinctStatementPaths) => BatchAsClaimed

(***************************************************************************)
(* Claims about _load_data_from_excel                                       *)
(***************************************************************************)
HasOutstandingLogs == \E k \in DOMAIN workbook : workbook[k].name = SHEET_NAME

OutstandingLogs == workbook[CHOOSE k \in DOMAIN workbook : workbook[k].name = SHEET_NAME]

\* the first address a cell yields: the first non-blank piece between semicolons
FirstAddress(v) ==
    LET pieces == {k \in DOMAIN Split(FillStr(v), ";") : Strip(Split(FillStr(v), ";")[k]) # <<>>}
    IN IF pieces = {} THEN <<>> ELSE Strip(Split(FillStr(v), ";")[Min(pieces)])

\* the rows of OUTSTANDING LOGS below the detected header row whose first column
\* holds 'X' (trimmed, any case) and whose column 8 yields a first address
QualifyingRows ==
    {r \in DOMAIN OutstandingLogs.rows :
        /\ r > HeaderRow(OutstandingLogs)
        /\ Lower(Strip(FillStr(OutstandingLogs.rows[r][FlagColumn]))) = <<"x">>
        /\ FirstAddress(OutstandingLogs.rows[r][AddressColumn]) # <<>>}

RecipientsAsClaimed ==
    /\ {recipients[k].row : k \in DOMAIN recipients} = QualifyingRows
    /\ \A k1, k2 \in DOMAIN recipients : k1 < k2 => recipients[k1].row < recipients[k2].row
    /\ \A k \in DOMAIN recipients :
           recipients[k].to_email
               = FirstAddress(OutstandingLogs.rows[recipients[k].row][AddressColumn])

\* C9: when the workbook has a worksheet OUTSTANDING LOGS, the recipients loaded
\* are exactly the rows of that worksheet below the detected header row whose
\* first column holds 'X' (trimmed, any case) and whose column 8 yields a
\* non-empty first address: one recipient per such row, in row order, and none
\* from any other row or sheet.
C9_RecipientsAreTheFlaggedRows ==
    (load_pc = "done" /\ HasOutstandingLogs) => RecipientsAsClaimed

\* What holds: the claim, for worksheets whose first row holds something.
FirstRowUsed == \E c \in 1..SheetColumns : CellValue(OutstandingLogs, 1, c) # PyNone

RecipientsAreTheFlaggedRowsFromRowOne ==
    (load_pc = "done" /\ HasOutstandingLogs /\ FirstRowUsed) => RecipientsAsClaimed

(***************************************************************************)
(* Claims about create_individual_statements                                *)
(***************************************************************************)
\* the positions of the Data rows whose ACC.ACCOUNT NUMBER is the card number
RowsOfCard(card_number) ==
    {r \in DOMAIN data_rows : data_rows[r][AccountNumberCol] = card_number}

\* the k-th smallest member of a set of numbers
RECURSIVE Nth(_, _)
Nth(S, k) == IF k = 1 THEN Min(S) ELSE Nth(S \ {Min(S)}, k - 1)

\* the Statement sheet saved for an entry is as the claim says
SheetAsClaimed(sv) ==
    LET card_number == cardfiles[sv.entry][1]
        mine == RowsOfCard(card_number)
        n == Cardinality(mine)
    IN /\ n >= 1
       /\ {r \in DOMAIN sv.sheet.rows : r >= FirstRow} = FirstRow..(FirstRow - 1 + n)
       /\ \A i \in 1..n :
              \A c \in 1..StatementCols :
                  sv.sheet.rows[FirstRow - 1 + i][c]
                      = TitleCell(data_rows[Nth(mine, i)][SourceCols[c]])
       /\ sv.sheet.F8 = <<FirstRow, FirstRow - 1 + n>>

DigitRuns(s) ==
    {pq \in (DOMAIN s) \X (DOMAIN s) :
        /\ pq[1] <= pq[2]
        /\ \A k \in pq[1]..pq[2] : s[k] \in Digits
        /\ (pq[1] = 1 \/ s[pq[1] - 1] \notin Digits)
        /\ (pq[2] = Len(s) \/ s[pq[2] + 1] \notin Digits)}

\* the codes of a result string: what ' // ' joins
Listed(str) == NonEmptyOnly(SplitAcc(str, {" ", "/"}, <<>>))

\* how often a code is reported, in the two result strings together
TimesReported(code) ==
    Cardinality({k \in DOMAIN Listed(cost_codes.ten_digit) :
                    Listed(cost_codes.ten_digit)[k] = code})
    + Cardinality({k \in DOMAIN Listed(cost_codes.eight_digit) :
                      Listed(cost_codes.eight_digit)[k] = code})

\* C11: every run of 8 or more consecutive digits of the page text is reported
\* exactly once, in one of the two result strings.
C11_EveryLongRunIsReportedOnce ==
    codes_pc = "done" =>
        \A pq \in DigitRuns(page_text) :
            pq[2] - pq[1] + 1 >= MinDigits
            => TimesReported(SubSeq(page_text, pq[1], pq[2])) = 1

\* What holds: a run of exactly 8 or exactly 10 digits that stands between
\* delimiters (a space, a pipe, a no-break space, or an end of the text) is
\* reported exactly once.
Delimiters == {" ", "|", NBSP}

Delimited(s, pq) ==
    /\ (pq[1] = 1 \/ s[pq[1] - 1] \in Delimiters)
    /\ (pq[2] = Len(s) \/ s[pq[2] + 1] \in Delimiters)

DelimitedCodesAreReportedOnce ==
    codes_pc = "done" =>
        \A pq \in DigitRuns(page_text) :
            (/\ pq[2] - pq[1] + 1 \in {EightDigits, TenDigits}
             /\ Delimited(page_text, pq))
            => TimesReported(SubSeq(page_text, pq[1], pq[2])) = 1

(***************************************************************************)
(* Claims about update_excel                                                *)
(***************************************************************************)
\* the cells update_excel changed
ChangedCells ==
    {x \in (DOMAIN full_list) \cup (DOMAIN full_list_before) :
        RangeValue(full_list, x[1], x[2]) # RangeValue(full_list_before, x[1], x[2])}

\* a row of the worksheet that held nothing before the call
WasEmpty(row) == \A x \in DOMAIN full_list_before : x[2] # row

\* the row that holds the fields of the new record: its full name is written there
RecordRowWritten == rows_written.next_row

\* the row that holds the sequence number of the new record
SequenceRowWritten == rows_written.new_row

\* C19: update_excel writes the sequence number of the new record and its other
\* fields to the same row, and that row held nothing before, whatever column A
\* holds from row 5 downwards.
C19_RecordWrittenToOneEmptyRow ==
    deleg_pc = "done" =>
        /\ SequenceRowWritten = RecordRowWritten
        /\ RangeValue(full_list, "A", RecordRowWritten) = PyNum(DigitsOfInt(rows_written.new_count))
        /\ RangeValue(full_list, "D", RecordRowWritten) = PyStr(FullNameOf(form.data.delegated_name))
        /\ WasEmpty(RecordRowWritten)

\* What holds: when column A has a heading in row 4 and no blank cell between it
\* and the last cell of column A that holds something, the sequence number and
\* the other fields go to the same row, the one after the last row of column A.
ColumnAContiguous(ws) ==
    /\ RangeValue(ws, "A", FirstDataRow - 1) # PyNone
    /\ \A row \in FirstDataRow..LastUsedRow(ws) : RangeValue(ws, "A", row) # PyNone

OneRowWhenColumnAContiguous ==
    (deleg_pc = "done" /\ ColumnAContiguous(full_list_before)) =>
        /\ SequenceRowWritten = RecordRowWritten
        /\ RecordRowWritten = LastUsedRow(full_list_before) + 1
        /\ RangeValue(full_list, "A", RecordRowWritten) = PyNum(DigitsOfInt(rows_written.new_count))
        /\ RangeValue(full_list, "D", RecordRowWritten) = PyStr(FullNameOf(form.data.delegated_name))

====
